---- MODULE Spec2Model ----
(***************************************************************************)
(* Model of the prompt2agent orchestrator:                                 *)
(*   src/prompt2agent/orchestrator/coordinator.py  (run_workflow,          *)
(*       _sequential_execution, _peer_execution, _execute_agent)           *)
(*   src/prompt2agent/orchestrator/factory.py      (AgentWrapper.run)      *)
(*   src/prompt2agent/adapters/model_adapter.py    (ModelAdapter.chat)     *)
(*   src/prompt2agent/workflow/schema.py           (validate_workflow)     *)
(* specified by Spec, and of the prompt-to-answer lifecycle of main.py:     *)
(*   src/prompt2agent/models.py       (ToolSpec, WorkflowPlan, WorkflowSpec)*)
(*   src/prompt2agent/compiler.py     (_plan_to_spec)                       *)
(*   src/prompt2agent/persistence.py  (save_workflow, load_workflow)        *)
(*   src/prompt2agent/workflow.py, tools.py  (build_agents)                 *)
(*   src/prompt2agent/runtime.py      (run_workflow)                        *)
(* specified by PipelineSpec.                                              *)
(*                                                                         *)
(* Granularity.  The code runs on one asyncio event loop, so a step of the *)
(* model is what one coroutine does between two suspensions.  The only     *)
(* suspension inside an agent invocation is the HTTP request of            *)
(* ModelAdapter.chat (model_adapter.py:67-70); a chat that raises before   *)
(* it (no credential, model_adapter.py:41-44) never suspends, so the whole *)
(* retry loop of _execute_agent then runs within one step.                 *)
(*                                                                         *)
(* Texts are sequences of one-character strings, so that "\n".join is a    *)
(* real concatenation.                                                     *)
(***************************************************************************)
EXTENDS Integers, Sequences, FiniteSets, TLC

\* ------------------------------------------------------------- bounds

\* Largest number of agent definitions in a workflow of the model.
MaxAgents == 2

\* Largest execution.retry_limit in a workflow of the model.
MaxRetry == 1

\* Largest execution.max_iterations in a workflow of the model.
MaxIter == 2

\* ------------------------------------------------------------- texts

NL == "\n"

\* "\n".join(parts), coordinator.py:92
RECURSIVE JoinLines(_)
JoinLines(parts) ==
    IF Len(parts) = 0 THEN << >>
    ELSE IF Len(parts) = 1 THEN parts[1]
    ELSE parts[1] \o <<NL>> \o JoinLines(Tail(parts))

\* Mutant of IsBlank: only the empty string counts as blank.
IsEmptyText(text) == Len(text) = 0

\* `not output.strip()` (runtime.py:71, 113): the text is empty or every
\* character of it is whitespace.
Whitespace == {" ", NL}
IsBlank(text) == \A i \in DOMAIN text : text[i] \in Whitespace

\* The goal of the modelled workflows (metadata.goal).
GoalText == <<"G", " ", "o">>

\* Non-empty contents a model can answer with; the second is whitespace only.
Contents == { <<"x">>, <<" ">> }

\* Agent ids a workflow can declare, in the order the workflows list them.
AgentNames == <<"planner", "writer", "critic", "editor">>

\* ------------------------------------------------------------- workflows

\* The agent definitions of a workflow that lists the first n names.
AgentDefs(n) == [i \in 1..n |-> [id |-> AgentNames[i]]]

\* Workflows of the model: the well-formed ones ...
GoodWorkflows ==
    { [metadata  |-> [id |-> "wf", goal |-> GoalText, created_at |-> "t0"],
       agents    |-> AgentDefs(n),
       execution |-> [mode |-> m, max_iterations |-> it, retry_limit |-> r]] :
         n \in 2..MaxAgents, m \in {"sequential", "peer"},
         it \in 1..MaxIter, r \in 0..MaxRetry }

\* ... and some that validate_workflow rejects: a single agent, a duplicate
\* agent id, an unknown mode, an empty goal; then workflows with several
\* defects at once: an agent without id next to a duplicate id, a single
\* agent without id, a value json.dumps cannot serialize next to an unknown
\* mode, and a dictionary that has only its metadata.
BadWorkflows ==
    { [metadata  |-> [id |-> "wf", goal |-> GoalText, created_at |-> "t0"],
       agents    |-> AgentDefs(1),
       execution |-> [mode |-> "sequential", max_iterations |-> 1, retry_limit |-> 0]],
      [metadata  |-> [id |-> "wf", goal |-> GoalText, created_at |-> "t0"],
       agents    |-> <<[id |-> AgentNames[1]], [id |-> AgentNames[1]]>>,
       execution |-> [mode |-> "peer", max_iterations |-> 1, retry_limit |-> 0]],
      [metadata  |-> [id |-> "wf", goal |-> GoalText, created_at |-> "t0"],
       agents    |-> AgentDefs(2),
       execution |-> [mode |-> "broadcast", max_iterations |-> 1, retry_limit |-> 0]],
      [metadata  |-> [id |-> "wf", goal |-> << >>, created_at |-> "t0"],
       agents    |-> AgentDefs(2),
       execution |-> [mode |-> "sequential", max_iterations |-> 1, retry_limit |-> 0]],
      [metadata  |-> [id |-> "wf", goal |-> GoalText, created_at |-> "t0"],
       agents    |-> <<[id |-> ""], [id |-> AgentNames[1]], [id |-> AgentNames[1]]>>,
       execution |-> [mode |-> "sequential", max_iterations |-> 1, retry_limit |-> 0]],
      [metadata  |-> [id |-> "wf", goal |-> GoalText, created_at |-> "t0"],
       agents    |-> <<[id |-> ""]>>,
       execution |-> [mode |-> "peer", max_iterations |-> 1, retry_limit |-> 0]],
      [metadata  |-> [id |-> "wf", goal |-> GoalText, created_at |-> "t0"],
       agents    |-> AgentDefs(2),
       execution |-> [mode |-> "broadcast", max_iterations |-> 1, retry_limit |-> 0],
       extra     |-> [pytype |-> "set"]],
      [metadata  |-> [id |-> "", goal |-> GoalText]] }

\* Names of the tools a workflow can declare or reference; only the first
\* is known to the registry (factory.py:59-62).
ToolNames == <<"web_search", "calculator">>

\* build_tool_registry, factory.py:59-62: the names the registry knows.
RegisteredTools == { ToolNames[1] }

\* A well-formed two-agent workflow whose second agent references the tools
\* `refs` and whose catalog (workflow["tools"]) declares `catalog`.
ToolWorkflow(catalog, refs) ==
    [metadata  |-> [id |-> "wf", goal |-> GoalText, created_at |-> "t0"],
     agents    |-> <<[id |-> AgentNames[1]], [id |-> AgentNames[2], tools |-> refs]>>,
     tools     |-> [i \in DOMAIN catalog |-> [name |-> catalog[i]]],
     execution |-> [mode |-> "sequential", max_iterations |-> 1, retry_limit |-> 0]]

\* Well-formed workflows with tools: a declared and registered tool, a
\* tool that is referenced but not declared, a tool that is declared but
\* not registered.
ToolWorkflows ==
    { ToolWorkflow(<<ToolNames[1]>>, <<ToolNames[1]>>),
      ToolWorkflow(<< >>, <<ToolNames[2]>>),
      ToolWorkflow(<<ToolNames[1]>>, <<ToolNames[1], ToolNames[2]>>),
      ToolWorkflow(<<ToolNames[2]>>, <<ToolNames[2]>>) }

\* Memory names a workflow can reference: the first two are declared by
\* the catalog (workflow["memory"]), the third is not.
MemoryNames == <<"shared", "notes", "undeclared">>

\* A well-formed two-agent workflow whose agents both reference the memory
\* "shared"; the catalog declares it with max_items 1 and type `type`, and
\* "notes" without a config.
MemoryWorkflow(mode, retry_limit, type) ==
    [metadata  |-> [id |-> "wf", goal |-> GoalText, created_at |-> "t0"],
     agents    |-> <<[id |-> AgentNames[1], memory |-> <<MemoryNames[1]>>],
                     [id |-> AgentNames[2], memory |-> MemoryNames]>>,
     memory    |-> <<[name |-> MemoryNames[1], type |-> type,
                      config |-> [max_items |-> 1]],
                     [name |-> MemoryNames[2], type |-> "short_term"]>>,
     execution |-> [mode |-> mode, max_iterations |-> 2, retry_limit |-> retry_limit]]

\* Workflows with memory, in both modes, and one whose catalog declares a
\* type instantiate_memory does not support.
MemoryWorkflows ==
    { MemoryWorkflow("sequential", 0, "short_term"),
      MemoryWorkflow("peer", 1, "short_term"),
      MemoryWorkflow("peer", 0, "long_term") }

\* Well-formed two-agent workflows whose execution policy carries numbers
\* below the minimum the schema declares (schema.py:87-88): no iteration,
\* and a negative retry limit in either mode.
OutOfRangeWorkflows ==
    { [metadata  |-> [id |-> "wf", goal |-> GoalText, created_at |-> "t0"],
       agents    |-> AgentDefs(2),
       execution |-> e] :
         e \in { [mode |-> "peer", max_iterations |-> 0, retry_limit |-> 0],
                 [mode |-> "peer", max_iterations |-> 1, retry_limit |-> -1],
                 [mode |-> "sequential", max_iterations |-> 1, retry_limit |-> -1] } }

Workflows ==
    GoodWorkflows \cup BadWorkflows \cup ToolWorkflows \cup MemoryWorkflows
    \cup OutOfRangeWorkflows

\* dict.get(key, default), e.g. schema.py:124.
Get(d, key, default) == IF key \in DOMAIN d THEN d[key] ELSE default

\* json.dumps(workflow) succeeds, schema.py:114-118; the one value of the
\* model that is not JSON is the Python set under "extra".
Serializable(w) == ~("extra" \in DOMAIN w /\ w.extra.pytype = "set")

\* _validate_agent_ids, schema.py:99-108: the first defect found, as a list.
RECURSIVE AgentIdErrors(_, _)
AgentIdErrors(agents, seen) ==
    IF Len(agents) = 0 THEN << >>
    ELSE IF Get(agents[1], "id", "") = "" THEN <<"Agent is missing an 'id'.">>
    ELSE IF agents[1].id \in seen THEN <<"Duplicate agent id">>
    ELSE AgentIdErrors(Tail(agents), seen \cup {agents[1].id})

\* validate_workflow, schema.py:111-143.
validate_workflow(w) ==
    LET fieldErrs ==
            (IF "metadata" \notin DOMAIN w
             THEN <<"Missing required field 'metadata'.">> ELSE << >>)
         \o (IF "agents" \notin DOMAIN w
             THEN <<"Missing required field 'agents'.">> ELSE << >>)
         \o (IF "execution" \notin DOMAIN w
             THEN <<"Missing required field 'execution'.">> ELSE << >>)
        metadata == Get(w, "metadata", << >>)
        metaErrs ==
            (IF Get(metadata, "id", "") = ""
             THEN <<"metadata.id is required">> ELSE << >>)
         \o (IF Get(metadata, "goal", << >>) = << >>
             THEN <<"metadata.goal is required">> ELSE << >>)
         \o (IF Get(metadata, "created_at", "") = ""
             THEN <<"metadata.created_at is required">> ELSE << >>)
        agents == Get(w, "agents", << >>)
        agentErrs ==
            IF Len(agents) < 2
            THEN <<"At least two agent definitions are required">>
            ELSE AgentIdErrors(agents, {})
        execution == Get(w, "execution", << >>)
        modeErrs ==
            IF Get(execution, "mode", "") \notin {"sequential", "peer"}
            THEN <<"execution.mode must be 'sequential' or 'peer'">>
            ELSE << >>
        errors == fieldErrs \o metaErrs \o agentErrs \o modeErrs
    IN  IF ~Serializable(w)
        THEN [valid |-> FALSE, errors |-> <<"Workflow is not JSON serializable">>]
        ELSE [valid |-> Len(errors) = 0, errors |-> errors]

\* ------------------------------------------------------------- model backend

\* What the upstream can answer to one request: an HTTP error, a body
\* without choices, a choice with empty content, a choice with content.
Responses ==
    { [status |-> 500, choices |-> << >>],
      [status |-> 200, choices |-> << >>],
      [status |-> 200, choices |-> << [content |-> << >>] >>] }
    \cup { [status |-> 200, choices |-> << [content |-> c] >>] : c \in Contents }

\* ModelAdapter.chat raises before sending anything, model_adapter.py:41-44.
ChatRaisesUnsent(api_key) == api_key = ""

\* ModelAdapter.chat once the response is in, model_adapter.py:69-80.
ChatResult(response) ==
    IF response.status # 200
    THEN [ok |-> FALSE, error |-> "HTTPStatusError"]
    ELSE IF Len(response.choices) = 0
    THEN [ok |-> FALSE, error |-> "No choices returned from OpenRouter response"]
    ELSE IF response.choices[1].content = << >>
    THEN [ok |-> FALSE, error |-> "Empty content received from OpenRouter"]
    ELSE [ok |-> TRUE, content |-> response.choices[1].content]


\* ------------------------------------------------------------- state

VARIABLES
    workflow,       \* the workflow dictionary handed to run_workflow
    api_key,        \* ModelAdapter.api_key, fixed when the adapter is built
    pc,             \* where run_workflow is: "validating", "building",
                    \* "dispatching", "executing", "completed", "failed"
    ordered_agents, \* coordinator.py:108, the agents (id, tools) in workflow order
    task,           \* per agent position, the frame of its _execute_agent call
    idx,            \* sequential mode: position of the agent being run
    iteration,      \* peer mode: the iteration being run, from 1
    current_input,  \* _sequential_execution's current_input
    shared_state,   \* _peer_execution's shared_state
    logs,           \* the step log being accumulated
    gather_exc,     \* peer mode: the first exception a gathered task raised
    error,          \* the exception run_workflow raised to its caller
    result,         \* the result string run_workflow returned
    artifacts       \* the files _save_run_artifacts wrote and what it returned

\* The state of one run of the coordinator (orchestrator/coordinator.py).
coordinator_vars ==
    <<workflow, api_key, pc, ordered_agents, task, idx, iteration,
      current_input, shared_state, logs, gather_exc, error, result, artifacts>>

\* The state of one prompt-to-answer lifecycle (main.py:15-21).
VARIABLES
    plan,           \* the payload the planning model returned, compiler.py:92-93
    stored,         \* the document under the workflow directory, persistence.py:24-26
    spec,           \* the WorkflowSpec in hand (compiler.py:99, persistence.py:39)
    runnable,       \* the RunnableWorkflow load_workflow returned, persistence.py:41
    stage,          \* where the lifecycle is: "idle", "start", "compiled", "saved",
                    \* "loaded", "running", "fallback", "done", "failed"
    run,            \* runtime.run_workflow's frame: session, final_output, ...
    answer,         \* the string runtime.run_workflow returned
    failure         \* the exception the lifecycle raised

pipeline_vars == <<plan, stored, spec, runnable, stage, run, answer, failure>>

\* One ShortTermMemoryBuffer under the operations of its interface
\* (memory/short_term.py).
VARIABLES
    ring,           \* the buffer: max_items and the deque's items, short_term.py:16-17
    added           \* the items handed to add since the buffer was last cleared

buffer_vars == <<ring, added>>

\* One call of generate_workflow (meta/generator.py:96-110).
VARIABLES
    prompt,         \* the goal generate_workflow is called with
    adapter,        \* the ModelAdapter it is called with: its api_key
    generation      \* the call: where it is, the candidate, what it returned or raised

generator_vars == <<prompt, adapter, generation>>

vars == <<coordinator_vars, pipeline_vars, buffer_vars, generator_vars>>

NoPlan == [entrypoint |-> "<none>", agents |-> << >>]
NoDoc == [execution |-> [entrypoint |-> "<none>"], agents |-> << >>]
NoSpec == [metadata |-> [spec_id |-> "<none>"]]
NoRunnable == [agents |-> << >>]
NoRun == [session |-> "none", closes |-> 0, graph_runs |-> 0, fallback_runs |-> 0,
          graph_error |-> [type |-> "none", message |-> << >>],
          fallback_agent |-> [name |-> << >>, instructions |-> << >>,
                              tools |-> << >>, model |-> "<none>"],
          fallback_input |-> << >>,
          final_output |-> [isstr |-> TRUE, value |-> <<"<none>">>]]
NoAnswer == <<"<none>">>
NoFailure == [type |-> "none", raised_by |-> ""]

\* No lifecycle is under way.
PipelineIdle ==
    /\ plan = NoPlan /\ stored = NoDoc /\ spec = NoSpec /\ runnable = NoRunnable
    /\ stage = "idle" /\ run = NoRun /\ answer = NoAnswer /\ failure = NoFailure

NoBuffer == [max_items |-> 0, items |-> << >>]

\* No buffer is under test.
BufferIdle == ring = NoBuffer /\ added = << >>

NoGeneration == [stage |-> "idle"]

\* No workflow is being generated.
GeneratorIdle == prompt = << >> /\ adapter = [api_key |-> ""] /\ generation = NoGeneration

NoEntry == [agent_id |-> "", output |-> << >>, context |-> [mode |-> ""]]
NoError == [type |-> "none", agent |-> "", attempts |-> 0, errors |-> << >>]
NoResult == <<"<none>">>

\* The frame of an _execute_agent call that has not been made.
Pending ==
    [status |-> "pending", attempt |-> 0, failures |-> 0, finished |-> 0,
     input_text |-> << >>,
     context |-> [mode |-> ""], entry |-> NoEntry]

\* The frame on entry to _execute_agent, coordinator.py:29-36.
NewFrame(input_text, context) ==
    [Pending EXCEPT !.status = "running", !.input_text = input_text,
                    !.context = context]

\* coordinator.py:110
Execution == Get(workflow, "execution", [mode |-> "sequential"])

RetryLimit == Get(Execution, "retry_limit", 0)    \* coordinator.py:55, 76
Iterations == Get(Execution, "max_iterations", 1) \* coordinator.py:77
Mode == Get(Execution, "mode", "sequential")      \* coordinator.py:111
NumAgents == Len(workflow.agents)

\* ------------------------------------------------------------- _execute_agent

\* Mutant of ExecuteAgentLoop: the loop runs over range(retry_limit + 2).
RECURSIVE ExecuteAgentLoopOneMore(_, _, _)
ExecuteAgentLoopOneMore(frame, retry_limit, key) ==
    IF frame.attempt >= retry_limit + 2
    THEN [frame EXCEPT !.status = "exhausted"]
    ELSE IF ChatRaisesUnsent(key)
    THEN ExecuteAgentLoopOneMore([frame EXCEPT !.attempt = @ + 1, !.failures = @ + 1],
                                 retry_limit, key)
    ELSE [frame EXCEPT !.attempt = @ + 1, !.status = "inflight"]

\* The for loop of _execute_agent from the top of an iteration up to the
\* next suspension, coordinator.py:37-44: no iteration left raises
\* RuntimeError (the frame ends "exhausted"); an attempt whose chat raises
\* before sending is caught and the loop goes on; otherwise the attempt is
\* suspended in the HTTP request ("inflight").  frame.attempt counts the
\* attempts started, i.e. the calls of agent.run, and frame.failures the
\* exceptions caught; last_exception only chains the final RuntimeError to
\* its cause and is not kept.
RECURSIVE ExecuteAgentLoop(_, _, _)
ExecuteAgentLoop(frame, retry_limit, key) ==
    IF frame.attempt >= retry_limit + 1
    THEN [frame EXCEPT !.status = "exhausted"]
    ELSE IF ChatRaisesUnsent(key)
    THEN ExecuteAgentLoop([frame EXCEPT !.attempt = @ + 1, !.failures = @ + 1],
                          retry_limit, key)
    ELSE [frame EXCEPT !.attempt = @ + 1, !.status = "inflight"]

\* AgentWrapper.run after the chat returned, factory.py:49-53.
AgentRunEntry(agent_id, content, context) ==
    [agent_id |-> agent_id, output |-> content, context |-> context]

\* Mutant of ResumeAttempt: a failed attempt is swallowed and returned as
\* an entry with empty output.
ResumeAttemptSwallow(frame, agent_id, response, retry_limit, key) ==
    LET r == ChatResult(response)
    IN  [frame EXCEPT !.status = "done",
                      !.entry = AgentRunEntry(agent_id,
                                              IF r.ok THEN r.content ELSE << >>,
                                              frame.context)]

\* Mutant of ResumeAttempt: the retry is made with an empty input.
ResumeAttemptFreshInput(frame, agent_id, response, retry_limit, key) ==
    LET r == ChatResult(response)
    IN  IF r.ok
        THEN [frame EXCEPT !.status = "done",
                           !.entry = AgentRunEntry(agent_id, r.content, frame.context)]
        ELSE ExecuteAgentLoop([frame EXCEPT !.failures = @ + 1, !.input_text = << >>],
                              retry_limit, key)

\* The suspended attempt resumes with the upstream's response: agent.run
\* returns the entry and _execute_agent returns it (coordinator.py:40), or
\* the exception is caught and the loop goes on (coordinator.py:41-43).
ResumeAttempt(frame, agent_id, response, retry_limit, key) ==
    LET r == ChatResult(response)
    IN  IF r.ok
        THEN [frame EXCEPT !.status = "done",
                           !.entry = AgentRunEntry(agent_id, r.content, frame.context)]
        ELSE ExecuteAgentLoop([frame EXCEPT !.failures = @ + 1], retry_limit, key)

\* coordinator.py:40: the call returns; frame.finished is its place in the
\* order in which the calls of `tasks` returned.
Finish(frame, tasks) ==
    IF frame.status = "done"
    THEN [frame EXCEPT !.finished =
              1 + Cardinality({ k \in DOMAIN tasks : tasks[k].status = "done" })]
    ELSE frame

\* _execute_agent called afresh.
ExecuteAgent(input_text, context, retry_limit, key) ==
    ExecuteAgentLoop(NewFrame(input_text, context), retry_limit, key)

\* Mutant of ExhaustedError: the message counts the retries, not the attempts.
ExhaustedErrorRetries(agent_id, retry_limit) ==
    [type |-> "RuntimeError", agent |-> agent_id, attempts |-> retry_limit,
     errors |-> << >>]

\* The RuntimeError of coordinator.py:44.
ExhaustedError(agent_id, retry_limit) ==
    [type |-> "RuntimeError", agent |-> agent_id, attempts |-> retry_limit + 1,
     errors |-> << >>]

\* ------------------------------------------------------------- artifacts

\* No file written, no RunArtifacts returned.
NoArtifacts ==
    [written |-> << >>, returned |-> [log_file |-> << >>, result_file |-> << >>]]

\* uuid4().hex, uuid4().hex[:8] and the formatted utcnow() of
\* coordinator.py:130-134.
Uuid4Hex == "u0"
RunId == "r1"
Timestamp == "20250101000000"

\* goal.replace(" ", "-").lower(), coordinator.py:132.
SlugGoal(goal) ==
    [i \in DOMAIN goal |->
        CASE goal[i] = " " -> "-"
          [] goal[i] = "G" -> "g"
          [] OTHER -> goal[i]]

\* Mutant of SaveRunArtifacts: both documents are written to one path.
SaveRunArtifactsOnePath(w, lg, res) ==
    LET metadata == Get(w, "metadata", << >>)
        path == <<"run_">> \o SlugGoal(Get(metadata, "goal", <<"workflow">>))
                \o <<"_", Get(metadata, "id", Uuid4Hex), "_", RunId, "_", Timestamp, ".json">>
    IN  [written  |-> << [path |-> path, content |-> [json |-> lg]],
                        [path |-> path, content |-> [json |-> [result |-> res]]] >>,
         returned |-> [log_file |-> path, result_file |-> path]]

\* _save_run_artifacts, coordinator.py:123-146: the two paths are built
\* from one base name, the logs and then the result are written as JSON
\* documents, and the RunArtifacts of the two paths is returned.
SaveRunArtifacts(w, lg, res) ==
    LET metadata == Get(w, "metadata", << >>)
        workflow_id == Get(metadata, "id", Uuid4Hex)
        slug_goal == SlugGoal(Get(metadata, "goal", <<"workflow">>))
        base_name == <<"run_">> \o slug_goal
                     \o <<"_", workflow_id, "_", RunId, "_", Timestamp>>
        log_path == base_name \o <<"_log.json">>
        result_path == base_name \o <<"_result.json">>
    IN  [written  |-> << [path |-> log_path, content |-> [json |-> lg]],
                        [path |-> result_path, content |-> [json |-> [result |-> res]]] >>,
         returned |-> [log_file |-> log_path, result_file |-> result_path]]

\* ------------------------------------------------------------- run_workflow

Init ==
    /\ workflow \in Workflows
    /\ api_key \in {"", "sk"}
    /\ pc = "validating"
    /\ ordered_agents = << >>
    /\ task = << >>
    /\ idx = 0
    /\ iteration = 0
    /\ current_input = << >>
    /\ shared_state = << >>
    /\ logs = << >>
    /\ gather_exc = NoError
    /\ error = NoError
    /\ result = NoResult
    /\ artifacts = NoArtifacts
    /\ PipelineIdle /\ BufferIdle /\ GeneratorIdle

\* Mutant of Validate: the agents are instantiated before the workflow is
\* validated.
ValidateAfterCreate ==
    /\ pc = "validating"
    /\ LET v == validate_workflow(workflow)
           agents == Get(workflow, "agents", << >>)
       IN  /\ ordered_agents' =
                  [i \in DOMAIN agents |-> [id |-> Get(agents[i], "id", ""), tools |-> {},
                                            memory |-> << >>]]
           /\ IF v.valid
              THEN /\ pc' = "building"
                   /\ error' = error
              ELSE /\ pc' = "failed"
                   /\ error' = [type |-> "ValueError", agent |-> "", attempts |-> 0,
                                errors |-> v.errors]
    /\ UNCHANGED <<workflow, api_key, task, idx, iteration,
                   current_input, shared_state, logs, gather_exc, result, artifacts>>
    /\ UNCHANGED <<pipeline_vars, buffer_vars, generator_vars>>

\* coordinator.py:103-105: the validation gate; the ValueError carries the
\* list validate_workflow returned.
Validate ==
    /\ pc = "validating"
    /\ LET v == validate_workflow(workflow)
       IN  IF v.valid
           THEN /\ pc' = "building"
                /\ error' = error
           ELSE /\ pc' = "failed"
                /\ error' = [type |-> "ValueError", agent |-> "", attempts |-> 0,
                             errors |-> v.errors]
    /\ UNCHANGED <<workflow, api_key, ordered_agents, task, idx, iteration,
                   current_input, shared_state, logs, gather_exc, result, artifacts>>
    /\ UNCHANGED <<pipeline_vars, buffer_vars, generator_vars>>

\* factory.py:91: the names of the workflow's tool catalog.
ToolConfigs(w) ==
    LET tools == Get(w, "tools", << >>)
    IN  { tools[i].name : i \in DOMAIN tools }

\* factory.py:96-100: the tool names one agent definition is given, i.e.
\* those of its references that the catalog declares.
AgentTools(agent_def, w) ==
    LET refs == Get(agent_def, "tools", << >>)
    IN  { refs[i] : i \in { j \in DOMAIN refs : refs[j] \in ToolConfigs(w) } }

\* factory.py:92: the catalog entry of a memory name (the last one when a
\* name is declared twice).
MemoryConfig(w, name) ==
    LET memory == Get(w, "memory", << >>)
        last == CHOOSE i \in DOMAIN memory :
                    /\ memory[i].name = name
                    /\ \A j \in DOMAIN memory : memory[j].name = name => j <= i
    IN  memory[last]

\* factory.py:101-105: the catalog entries one agent definition
\* references, by name.
AgentMemoryConfigs(agent_def, w) ==
    LET refs == Get(agent_def, "memory", << >>)
        memory == Get(w, "memory", << >>)
        declared == { memory[i].name : i \in DOMAIN memory }
    IN  [name \in { refs[i] : i \in DOMAIN refs } \cap declared |-> MemoryConfig(w, name)]

\* instantiate_memory, factory.py:76-77, raises ValueError for a type
\* other than short_term.
MemoryRaises(configs) ==
    \E name \in DOMAIN configs : Get(configs[name], "type", "") # "short_term"

\* factory.py:79: max_items when the config does not give it.
DefaultMaxItems == 10

\* instantiate_memory, factory.py:78-80, and ShortTermMemoryBuffer.__init__,
\* short_term.py:15-17: a new, empty buffer for each name of each agent.
InstantiateMemory(configs) ==
    [name \in DOMAIN configs |->
        [max_items |-> Get(Get(configs[name], "config", << >>), "max_items", DefaultMaxItems),
         items |-> << >>]]

\* Mutant of BufferAdd: a full buffer refuses the new item and keeps its
\* oldest.
BufferAddKeepOldest(buf, item) ==
    IF Len(buf.items) >= buf.max_items THEN buf
    ELSE [buf EXCEPT !.items = Append(@, item)]

\* ShortTermMemoryBuffer.add, short_term.py:19-21: deque(maxlen).append
\* drops the oldest item of a full buffer.
BufferAdd(buffer, item) ==
    IF buffer.max_items = 0 THEN buffer
    ELSE IF Len(buffer.items) >= buffer.max_items
    THEN [buffer EXCEPT !.items = Append(Tail(@), item)]
    ELSE [buffer EXCEPT !.items = Append(@, item)]

\* Mutant of Remember: a memory name is one buffer, shared by the agents
\* that reference it.
RememberShared(agents, i, response) ==
    IF ChatResult(response).ok
    THEN [j \in DOMAIN agents |->
            [agents[j] EXCEPT !.memory =
                [name \in DOMAIN @ |->
                    IF name \in DOMAIN agents[i].memory
                    THEN BufferAdd(@[name], ChatResult(response).content)
                    ELSE @[name]]]]
    ELSE agents

\* Mutant of Remember: the buffers record every attempt, the error of a
\* chat that raised included.
RememberAttempts(agents, i, response) ==
    LET item == IF ChatResult(response).ok
                THEN ChatResult(response).content
                ELSE <<ChatResult(response).error>>
    IN  [agents EXCEPT ![i].memory =
            [name \in DOMAIN @ |-> BufferAdd(@[name], item)]]

\* AgentWrapper.run, factory.py:49-52: the response of a chat that
\* returned is added to every buffer of the agent that ran; a chat that
\* raised adds nothing.
Remember(agents, i, response) ==
    IF ChatResult(response).ok
    THEN [agents EXCEPT ![i].memory =
            [name \in DOMAIN @ |-> BufferAdd(@[name], ChatResult(response).content)]]
    ELSE agents

\* ToolRegistry.get, tools/base.py:35-38, raises KeyError for a name that
\* is not registered.
RegistryRaises(names) == \E name \in names : name \notin RegisteredTools

\* factory.py:95-105: what building the wrapper of one agent definition
\* raises, its tools being looked up before its memory is instantiated.
WrapperRaises(agent_def, w) ==
    IF RegistryRaises(AgentTools(agent_def, w)) THEN "KeyError"
    ELSE IF MemoryRaises(AgentMemoryConfigs(agent_def, w)) THEN "ValueError"
    ELSE "none"

\* Mutant of CreateAgents: the tool and memory references of the agent
\* definitions are removed from the workflow once they are resolved.
CreateAgentsConsuming ==
    /\ pc = "building"
    /\ IF \E i \in 1..NumAgents : WrapperRaises(workflow.agents[i], workflow) # "none"
       THEN LET first == CHOOSE i \in 1..NumAgents :
                            /\ WrapperRaises(workflow.agents[i], workflow) # "none"
                            /\ \A j \in 1..(i - 1) :
                                  WrapperRaises(workflow.agents[j], workflow) = "none"
            IN  /\ pc' = "failed"
                /\ error' = [type |-> WrapperRaises(workflow.agents[first], workflow),
                             agent |-> "", attempts |-> 0, errors |-> << >>]
                /\ UNCHANGED <<ordered_agents, task>>
       ELSE /\ ordered_agents' =
                   [i \in 1..NumAgents |->
                       [id |-> workflow.agents[i].id,
                        tools |-> AgentTools(workflow.agents[i], workflow),
                        memory |-> InstantiateMemory(
                                       AgentMemoryConfigs(workflow.agents[i], workflow))]]
            /\ task' = [i \in 1..NumAgents |-> Pending]
            /\ pc' = "dispatching"
            /\ error' = error
    /\ workflow' = [workflow EXCEPT !.agents = [k \in DOMAIN @ |-> [id |-> @[k].id]]]
    /\ UNCHANGED <<api_key, idx, iteration, current_input, shared_state,
                   logs, gather_exc, result, artifacts>>
    /\ UNCHANGED <<pipeline_vars, buffer_vars, generator_vars>>

\* coordinator.py:107-108: create_agents (factory.py:84-117) and the
\* ordered agent list; the KeyError of the registry or the ValueError of
\* instantiate_memory of the first agent definition that raises
\* propagates out of run_workflow.
CreateAgents ==
    /\ pc = "building"
    /\ IF \E i \in 1..NumAgents : WrapperRaises(workflow.agents[i], workflow) # "none"
       THEN LET first == CHOOSE i \in 1..NumAgents :
                            /\ WrapperRaises(workflow.agents[i], workflow) # "none"
                            /\ \A j \in 1..(i - 1) :
                                  WrapperRaises(workflow.agents[j], workflow) = "none"
            IN  /\ pc' = "failed"
                /\ error' = [type |-> WrapperRaises(workflow.agents[first], workflow),
                             agent |-> "", attempts |-> 0, errors |-> << >>]
                /\ UNCHANGED <<ordered_agents, task>>
       ELSE /\ ordered_agents' =
                   [i \in 1..NumAgents |->
                       [id |-> workflow.agents[i].id,
                        tools |-> AgentTools(workflow.agents[i], workflow),
                        memory |-> InstantiateMemory(
                                       AgentMemoryConfigs(workflow.agents[i], workflow))]]
            /\ task' = [i \in 1..NumAgents |-> Pending]
            /\ pc' = "dispatching"
            /\ error' = error
    /\ UNCHANGED <<workflow, api_key, idx, iteration, current_input, shared_state,
                   logs, gather_exc, result, artifacts>>
    /\ UNCHANGED <<pipeline_vars, buffer_vars, generator_vars>>

\* ------------------------------------------------------------- sequential mode

\* coordinator.py:60
SeqContext == [mode |-> "sequential"]

\* Mutant of SeqNextInput: the output is not threaded through, every stage
\* gets the goal.
SeqNextInputGoal(entry) == workflow.metadata.goal

\* coordinator.py:64: the next agent's input is str(entry["output"]); the
\* output is already a string (model_adapter.py:80).
SeqNextInput(entry) == entry.output

\* Mutant of SeqStart: the calls of all agents are started at once, each
\* with the goal.
SeqStartAll ==
    /\ pc = "dispatching"
    /\ Mode # "peer"
    /\ LET goal == workflow.metadata.goal
           frame == ExecuteAgent(goal, SeqContext, RetryLimit, api_key)
       IN  /\ current_input' = goal
           /\ logs' = << >>
           /\ idx' = 1
           /\ task' = [i \in DOMAIN task |-> frame]
           /\ IF frame.status = "exhausted"
              THEN /\ pc' = "failed"
                   /\ error' = ExhaustedError(ordered_agents[1].id, RetryLimit)
              ELSE /\ pc' = "executing"
                   /\ error' = error
    /\ UNCHANGED <<workflow, api_key, ordered_agents, iteration, shared_state,
                   gather_exc, result, artifacts>>
    /\ UNCHANGED <<pipeline_vars, buffer_vars, generator_vars>>

\* coordinator.py:54-57 reached from run_workflow (coordinator.py:117):
\* the pipeline starts with the goal and calls _execute_agent for the
\* first agent, which runs up to its first suspension.
SeqStart ==
    /\ pc = "dispatching"
    /\ Mode # "peer"
    /\ LET goal == workflow.metadata.goal
           frame == ExecuteAgent(goal, SeqContext, RetryLimit, api_key)
       IN  /\ current_input' = goal
           /\ logs' = << >>
           /\ idx' = 1
           /\ task' = [task EXCEPT ![1] = frame]
           /\ IF frame.status = "exhausted"
              THEN /\ pc' = "failed"
                   /\ error' = ExhaustedError(ordered_agents[1].id, RetryLimit)
              ELSE /\ pc' = "executing"
                   /\ error' = error
    /\ UNCHANGED <<workflow, api_key, ordered_agents, iteration, shared_state,
                   gather_exc, result, artifacts>>
    /\ UNCHANGED <<pipeline_vars, buffer_vars, generator_vars>>

\* The response to the request in flight arrives and the pipeline runs on
\* to its next suspension (coordinator.py:56-65, 29-44): the attempt is
\* retried, or the agent is exhausted and the run fails, or the entry is
\* logged and either the next agent is called with its output or the run
\* returns through _save_run_artifacts (coordinator.py:119-120).
SeqResponse(response) ==
    /\ pc = "executing"
    /\ Mode # "peer"
    /\ task[idx].status = "inflight"
    /\ LET frame == Finish(ResumeAttempt(task[idx], ordered_agents[idx].id, response,
                                         RetryLimit, api_key), task)
           lg    == Append(logs, frame.entry)
           inp   == SeqNextInput(frame.entry)
           nxt   == ExecuteAgent(inp, SeqContext, RetryLimit, api_key)
       IN  CASE frame.status = "inflight" ->
                  /\ task' = [task EXCEPT ![idx] = frame]
                  /\ UNCHANGED <<pc, idx, current_input, logs, error, result, artifacts>>
             [] frame.status = "exhausted" ->
                  /\ task' = [task EXCEPT ![idx] = frame]
                  /\ pc' = "failed"
                  /\ error' = ExhaustedError(ordered_agents[idx].id, RetryLimit)
                  /\ UNCHANGED <<idx, current_input, logs, result, artifacts>>
             [] frame.status = "done" /\ idx = Len(ordered_agents) ->
                  /\ task' = [task EXCEPT ![idx] = frame]
                  /\ logs' = lg
                  /\ current_input' = inp
                  /\ result' = inp
                  /\ artifacts' = SaveRunArtifacts(workflow, lg, inp)
                  /\ pc' = "completed"
                  /\ UNCHANGED <<idx, error>>
             [] frame.status = "done" /\ idx < Len(ordered_agents) ->
                  /\ task' = [task EXCEPT ![idx] = frame, ![idx + 1] = nxt]
                  /\ logs' = lg
                  /\ current_input' = inp
                  /\ idx' = idx + 1
                  /\ IF nxt.status = "exhausted"
                     THEN /\ pc' = "failed"
                          /\ error' = ExhaustedError(ordered_agents[idx + 1].id, RetryLimit)
                     ELSE /\ UNCHANGED <<pc, error>>
                  /\ UNCHANGED <<result, artifacts>>
    /\ ordered_agents' = Remember(ordered_agents, idx, response)
    /\ UNCHANGED <<workflow, api_key, iteration, shared_state, gather_exc>>
    /\ UNCHANGED <<pipeline_vars, buffer_vars, generator_vars>>

\* ------------------------------------------------------------- peer mode

\* Mutant of PeerContext: the loop variable is logged as it is, from 0.
PeerContextZeroBased(iter) == [mode |-> "peer", iteration |-> iter - 1]

\* coordinator.py:85
PeerContext(iter) == [mode |-> "peer", iteration |-> iter]

\* Mutant of PeerNextState: the results are joined last to first.
PeerNextStateReversed(results) ==
    JoinLines([i \in 1..Len(results) |-> results[Len(results) + 1 - i].output])

\* coordinator.py:92: the next shared state joins the gathered results.
PeerNextState(results) ==
    JoinLines([i \in 1..Len(results) |-> results[i].output])

\* coordinator.py:80-90: asyncio.gather wraps one _execute_agent call per
\* agent in a task; the tasks take their first step in list order, each up
\* to its first suspension, before anything else runs on the loop.
GatherTasks(state, iter) ==
    [i \in 1..Len(ordered_agents) |->
        ExecuteAgent(state, PeerContext(iter), RetryLimit, api_key)]

\* The exception asyncio.gather hands to its awaiter is the one of the
\* first task that raised.
FirstRaised(tasks) ==
    IF \E i \in DOMAIN tasks : tasks[i].status = "exhausted"
    THEN LET i == CHOOSE j \in DOMAIN tasks :
                     /\ tasks[j].status = "exhausted"
                     /\ \A k \in DOMAIN tasks : tasks[k].status = "exhausted" => j <= k
         IN  ExhaustedError(ordered_agents[i].id, RetryLimit)
    ELSE NoError

\* Mutant of GatherDone: first-to-finish, the wait ends with the first
\* task that returned.
GatherAnyDone(tasks) == \E i \in DOMAIN tasks : tasks[i].status = "done"

\* Mutant of GatherDone: exceptions are gathered as results, the wait ends
\* when every task has returned or raised.
GatherAllSettled(tasks) ==
    \A i \in DOMAIN tasks : tasks[i].status \in {"done", "exhausted"}

\* await asyncio.gather(...) returns, coordinator.py:80-90: every task has
\* returned its entry.
GatherDone(tasks) == \A i \in DOMAIN tasks : tasks[i].status = "done"

\* coordinator.py:74-80 reached from run_workflow (coordinator.py:115):
\* the first iteration's tasks are created and run_workflow is suspended
\* in the gather.  When range(iterations) is empty the loop body never
\* runs: _peer_execution returns no log and the goal, and run_workflow
\* saves the artifacts (coordinator.py:78, 93, 119-120).
PeerStart ==
    /\ pc = "dispatching"
    /\ Mode = "peer"
    /\ LET goal == workflow.metadata.goal
           tasks == GatherTasks(goal, 1)
       IN  /\ shared_state' = goal
           /\ logs' = << >>
           /\ IF Iterations >= 1
              THEN /\ iteration' = 1
                   /\ task' = tasks
                   /\ gather_exc' = FirstRaised(tasks)
                   /\ pc' = "executing"
                   /\ UNCHANGED <<result, artifacts>>
              ELSE /\ result' = goal
                   /\ artifacts' = SaveRunArtifacts(workflow, << >>, goal)
                   /\ pc' = "completed"
                   /\ UNCHANGED <<iteration, task, gather_exc>>
    /\ UNCHANGED <<workflow, api_key, ordered_agents, idx, current_input, error>>
    /\ UNCHANGED <<pipeline_vars, buffer_vars, generator_vars>>

\* The response to task i's request arrives and the task runs on to its
\* next suspension or to its end (coordinator.py:37-44).  A task gather
\* started keeps running after gather has raised: asyncio.gather does not
\* cancel the other awaitables when one of them raises.
PeerResponse(i, response) ==
    /\ pc \in {"executing", "failed"}
    /\ Mode = "peer"
    /\ i \in DOMAIN task
    /\ task[i].status = "inflight"
    /\ LET frame == Finish(ResumeAttempt(task[i], ordered_agents[i].id, response,
                                         RetryLimit, api_key), task)
       IN  /\ task' = [task EXCEPT ![i] = frame]
           /\ gather_exc' = IF gather_exc = NoError /\ frame.status = "exhausted"
                            THEN ExhaustedError(ordered_agents[i].id, RetryLimit)
                            ELSE gather_exc
    /\ ordered_agents' = Remember(ordered_agents, i, response)
    /\ UNCHANGED <<workflow, api_key, pc, idx, iteration,
                   current_input, shared_state, logs, error, result, artifacts>>
    /\ UNCHANGED <<pipeline_vars, buffer_vars, generator_vars>>

\* Mutant of PeerGatherReturns: the loop runs one iteration more than
\* max_iterations.
PeerGatherReturnsOneMore ==
    /\ pc = "executing"
    /\ Mode = "peer"
    /\ GatherDone(task)
    /\ LET results == [i \in DOMAIN task |-> task[i].entry]
           lg      == logs \o results
           state   == PeerNextState(results)
           tasks   == GatherTasks(state, iteration + 1)
       IN  /\ logs' = lg
           /\ shared_state' = state
           /\ IF iteration <= Iterations
              THEN /\ iteration' = iteration + 1
                   /\ task' = tasks
                   /\ gather_exc' = FirstRaised(tasks)
                   /\ UNCHANGED <<pc, result, artifacts>>
              ELSE /\ result' = state
                   /\ artifacts' = SaveRunArtifacts(workflow, lg, state)
                   /\ pc' = "completed"
                   /\ UNCHANGED <<iteration, task, gather_exc>>
    /\ UNCHANGED <<workflow, api_key, ordered_agents, idx, current_input, error>>
    /\ UNCHANGED <<pipeline_vars, buffer_vars, generator_vars>>

\* Every task of the iteration returned: gather returns their results in
\* list order (coordinator.py:80-92); the loop starts the next iteration's
\* tasks, or _peer_execution returns and run_workflow saves the artifacts
\* (coordinator.py:93, 119-120).
PeerGatherReturns ==
    /\ pc = "executing"
    /\ Mode = "peer"
    /\ GatherDone(task)
    /\ LET results == [i \in DOMAIN task |-> task[i].entry]
           lg      == logs \o results
           state   == PeerNextState(results)
           tasks   == GatherTasks(state, iteration + 1)
       IN  /\ logs' = lg
           /\ shared_state' = state
           /\ IF iteration < Iterations
              THEN /\ iteration' = iteration + 1
                   /\ task' = tasks
                   /\ gather_exc' = FirstRaised(tasks)
                   /\ UNCHANGED <<pc, result, artifacts>>
              ELSE /\ result' = state
                   /\ artifacts' = SaveRunArtifacts(workflow, lg, state)
                   /\ pc' = "completed"
                   /\ UNCHANGED <<iteration, task, gather_exc>>
    /\ UNCHANGED <<workflow, api_key, ordered_agents, idx, current_input, error>>
    /\ UNCHANGED <<pipeline_vars, buffer_vars, generator_vars>>

\* Mutant of PeerGatherRaises: the logs gathered so far and the shared
\* state are saved before the exception leaves run_workflow.
PeerGatherRaisesSaving ==
    /\ pc = "executing"
    /\ Mode = "peer"
    /\ gather_exc # NoError
    /\ pc' = "failed"
    /\ error' = gather_exc
    /\ artifacts' = SaveRunArtifacts(workflow, logs, shared_state)
    /\ UNCHANGED <<workflow, api_key, ordered_agents, task, idx, iteration,
                   current_input, shared_state, logs, gather_exc, result>>
    /\ UNCHANGED <<pipeline_vars, buffer_vars, generator_vars>>

\* A task raised: gather raises its exception in _peer_execution at once,
\* and it propagates out of run_workflow (coordinator.py:80, 115).
PeerGatherRaises ==
    /\ pc = "executing"
    /\ Mode = "peer"
    /\ gather_exc # NoError
    /\ pc' = "failed"
    /\ error' = gather_exc
    /\ UNCHANGED <<workflow, api_key, ordered_agents, task, idx, iteration,
                   current_input, shared_state, logs, gather_exc, result, artifacts>>
    /\ UNCHANGED <<pipeline_vars, buffer_vars, generator_vars>>

\* run_workflow_sync, coordinator.py:149-155: when run_workflow has raised,
\* asyncio.run cancels the tasks that are still suspended before it
\* closes the loop.  A caller that awaits run_workflow on its own loop
\* never takes this step.
CancelLeftoverTasks ==
    /\ pc = "failed"
    /\ \E i \in DOMAIN task : task[i].status = "inflight"
    /\ task' = [i \in DOMAIN task |->
                   IF task[i].status = "inflight"
                   THEN [task[i] EXCEPT !.status = "cancelled"]
                   ELSE task[i]]
    /\ UNCHANGED <<workflow, api_key, pc, ordered_agents, idx, iteration,
                   current_input, shared_state, logs, gather_exc, error, result, artifacts>>
    /\ UNCHANGED <<pipeline_vars, buffer_vars, generator_vars>>

\* ------------------------------------------------------------- specification

Next ==
    \/ Validate
    \/ CreateAgents
    \/ SeqStart
    \/ \E response \in Responses : SeqResponse(response)
    \/ PeerStart
    \/ \E i \in 1..MaxAgents, response \in Responses : PeerResponse(i, response)
    \/ PeerGatherReturns
    \/ PeerGatherRaises
    \/ CancelLeftoverTasks

Spec == Init /\ [][Next]_vars

\* ------------------------------------------------------------- plans and specifications
\* models.py, compiler.py, persistence.py

\* Python's None, and `not value` for an optional string.
None == "<None>"
Falsy(value) == value \in {None, ""}

\* Agent keys a plan or a stored document declares, in declaration order,
\* and a key none of them declares.
PlanKeys == <<"lead", "helper">>
GhostKey == "ghost"

\* ToolSpec.kind, models.py:21.
ToolKinds == {"web_search", "agent_tool", "python_repl"}

\* The tool lists an agent's payload can carry: none, a hosted tool, a
\* function tool followed by an agent-as-tool reference (to itself, to the
\* other agent, to an undeclared key), an agent_tool whose target_agent is
\* omitted, empty or null, and a tool of a kind models.py does not know.
RawToolLists ==
    { << >>,
      << [kind |-> "web_search"] >>,
      << [kind |-> "agent_tool"] >>,
      << [kind |-> "agent_tool", target_agent |-> ""] >>,
      << [kind |-> "agent_tool", target_agent |-> None] >>,
      << [kind |-> "shell"] >> }
    \cup { << [kind |-> "python_repl"], [kind |-> "agent_tool", target_agent |-> k] >> :
             k \in {PlanKeys[i] : i \in DOMAIN PlanKeys} \cup {GhostKey} }

\* The name, summary and instructions of the agents, by key: a summary
\* can be empty, instructions can be blank or padded with whitespace.
AgentTexts ==
    { ("lead"   :> [name |-> <<"L">>, summary |-> << >>,
                    instructions |-> <<" ", "a", " ">>]) @@
      ("helper" :> [name |-> <<"H">>, summary |-> <<"s">>,
                    instructions |-> <<" ">>]),
      ("lead"   :> [name |-> <<"L">>, summary |-> <<"s">>,
                    instructions |-> <<"a">>]) @@
      ("helper" :> [name |-> <<"H">>, summary |-> << >>,
                    instructions |-> <<"b", NL>>]) }

\* The agents of a payload that declares the first n keys.
RawAgents(n) ==
    { [i \in 1..n |-> [key |-> PlanKeys[i], final |-> f[i], tools |-> t[i],
                       name |-> x[PlanKeys[i]].name,
                       summary |-> x[PlanKeys[i]].summary,
                       instructions |-> x[PlanKeys[i]].instructions]] :
        f \in [1..n -> BOOLEAN], t \in [1..n -> RawToolLists], x \in AgentTexts }

\* Payloads the planning model can return: any entrypoint, declared or
\* not, over agents with distinct keys, and one payload with a repeated key.
RawPlans ==
    { [entrypoint |-> e, agents |-> a] :
        e \in {PlanKeys[i] : i \in DOMAIN PlanKeys} \cup {GhostKey},
        a \in UNION { RawAgents(n) : n \in DOMAIN PlanKeys } }
    \cup { [entrypoint |-> PlanKeys[1],
            agents |-> << [key |-> PlanKeys[1], final |-> FALSE, tools |-> << >>,
                           name |-> <<"L">>, summary |-> <<"s">>,
                           instructions |-> <<"a">>],
                          [key |-> PlanKeys[1], final |-> TRUE, tools |-> << >>,
                           name |-> <<"H">>, summary |-> <<"s">>,
                           instructions |-> <<"b">>] >>] }

\* ToolSpec validation, models.py:18-38.  The kind must be one of the
\* literals; the field validator of target_agent runs only when the
\* payload supplies the field (pydantic does not validate a default).
ValidTool(raw) ==
    /\ raw.kind \in ToolKinds
    /\ "target_agent" \in DOMAIN raw =>
          ~(raw.kind = "agent_tool" /\ Falsy(raw.target_agent))

\* The ToolSpec instance of a valid payload; target_agent defaults to None
\* (models.py:24-27).
ToolSpecOf(raw) ==
    [kind |-> raw.kind, target_agent |-> Get(raw, "target_agent", None)]

\* AgentPlan / AgentSpec validation, models.py:48-65, 110-123.
ValidAgent(raw) == \A j \in DOMAIN raw.tools : ValidTool(raw.tools[j])

\* The keys a sequence of agents declares.
Keys(agents) == { agents[i].key : i \in DOMAIN agents }

\* WorkflowPlan validation, models.py:68-94: the agents validate, their
\* keys are unique (82-88) and the entrypoint is one of them (90-94).
ValidPlan(raw) ==
    /\ \A i \in DOMAIN raw.agents : ValidAgent(raw.agents[i])
    /\ Cardinality(Keys(raw.agents)) = Len(raw.agents)
    /\ raw.entrypoint \in Keys(raw.agents)

\* The WorkflowPlan instance of a valid payload.
WorkflowPlanOf(raw) ==
    [entrypoint |-> raw.entrypoint,
     agents |-> [i \in DOMAIN raw.agents |->
                    [key   |-> raw.agents[i].key,
                     name  |-> raw.agents[i].name,
                     summary |-> raw.agents[i].summary,
                     instructions |-> raw.agents[i].instructions,
                     final |-> raw.agents[i].final,
                     tools |-> [j \in DOMAIN raw.agents[i].tools |->
                                   ToolSpecOf(raw.agents[i].tools[j])]]]]

\* uuid.uuid4().hex, the prompt and provider.model_id, compiler.py:41-47;
\* DefaultModel is the model_id of this process's environment.
SpecId == "wf1"
Prompt == <<"p">>
DefaultModel == "default-model"

\* Mutant of PlanAgentToSpec: the plan's final flag is not carried over
\* and the AgentSpec keeps its default.
PlanAgentToSpecDefaultFinal(agent) ==
    [key |-> agent.key, name |-> agent.name, summary |-> agent.summary,
     instructions |-> agent.instructions,
     final |-> FALSE, model |-> None, tools |-> agent.tools]

\* _plan_agent_to_spec, compiler.py:54-64; the model override is not set.
PlanAgentToSpec(agent) ==
    [key |-> agent.key, name |-> agent.name, summary |-> agent.summary,
     instructions |-> agent.instructions,
     final |-> agent.final, model |-> None, tools |-> agent.tools]

\* Mutant of PromoteEntrypoint: the first agent listed is promoted.
PromoteFirstListed(agents, entrypoint) ==
    IF \E i \in DOMAIN agents : agents[i].final
    THEN agents
    ELSE [i \in DOMAIN agents |-> IF i = 1 THEN [agents[i] EXCEPT !.final = TRUE]
                                           ELSE agents[i]]

\* compiler.py:34-39: when no agent is final, the first agent whose key is
\* the entrypoint is made final.
PromoteEntrypoint(agents, entrypoint) ==
    IF \E i \in DOMAIN agents : agents[i].final
    THEN agents
    ELSE [i \in DOMAIN agents |->
            IF /\ agents[i].key = entrypoint
               /\ \A j \in 1..(i - 1) : agents[j].key # entrypoint
            THEN [agents[i] EXCEPT !.final = TRUE]
            ELSE agents[i]]

\* _plan_to_spec, compiler.py:31-51.
PlanToSpec(p) ==
    [metadata  |-> [spec_id |-> SpecId, source_prompt |-> Prompt,
                    default_model |-> DefaultModel],
     agents    |-> PromoteEntrypoint([i \in DOMAIN p.agents |-> PlanAgentToSpec(p.agents[i])],
                                     p.entrypoint),
     execution |-> [entrypoint |-> p.entrypoint]]

\* spec.model_dump(mode="json"), persistence.py:25: every field is written,
\* target_agent included (null when it is None).
Dump(sp) ==
    [metadata  |-> sp.metadata,
     agents    |-> [i \in DOMAIN sp.agents |->
                       [key   |-> sp.agents[i].key,
                        name  |-> sp.agents[i].name,
                        summary |-> sp.agents[i].summary,
                        instructions |-> sp.agents[i].instructions,
                        final |-> sp.agents[i].final,
                        model |-> sp.agents[i].model,
                        tools |-> [j \in DOMAIN sp.agents[i].tools |->
                                      [kind |-> sp.agents[i].tools[j].kind,
                                       target_agent |-> sp.agents[i].tools[j].target_agent]]]],
     execution |-> sp.execution]

\* The default model recorded in a document that was compiled when MODEL_ID
\* had another value than now, and a model override of an agent definition.
OtherModel == "openrouter/other-model"
OverrideModel == "openrouter/override-model"

\* The default model a stored document records and the override its first
\* agent carries.
DocModels ==
    { [default_model |-> DefaultModel, override |-> None],
      [default_model |-> OtherModel, override |-> None],
      [default_model |-> OtherModel, override |-> OverrideModel] }

\* Documents found under the workflow directory that this lifecycle did
\* not write: well-formed JSON with distinct agent keys, any entrypoint.
ExternalDocs ==
    { [metadata  |-> [spec_id |-> SpecId, source_prompt |-> Prompt,
                      default_model |-> m.default_model],
       agents    |-> [i \in DOMAIN a |->
                         [key |-> a[i].key, name |-> a[i].name,
                          summary |-> a[i].summary,
                          instructions |-> a[i].instructions,
                          final |-> a[i].final,
                          model |-> IF i = 1 THEN m.override ELSE None,
                          tools |-> a[i].tools]],
       execution |-> [entrypoint |-> e]] :
        e \in {PlanKeys[i] : i \in DOMAIN PlanKeys} \cup {GhostKey},
        a \in UNION { RawAgents(n) : n \in DOMAIN PlanKeys },
        m \in DocModels }

\* WorkflowSpec.model_validate, persistence.py:39 and models.py:110-140:
\* the agents validate; WorkflowSpec declares no validator of its own.
ValidDoc(doc) == \A i \in DOMAIN doc.agents : ValidAgent(doc.agents[i])

\* The WorkflowSpec instance of a valid document.
WorkflowSpecOf(doc) ==
    [metadata  |-> doc.metadata,
     agents    |-> [i \in DOMAIN doc.agents |->
                       [key   |-> doc.agents[i].key,
                        name  |-> doc.agents[i].name,
                        summary |-> doc.agents[i].summary,
                        instructions |-> doc.agents[i].instructions,
                        final |-> doc.agents[i].final,
                        model |-> doc.agents[i].model,
                        tools |-> [j \in DOMAIN doc.agents[i].tools |->
                                      ToolSpecOf(doc.agents[i].tools[j])]]],
     execution |-> doc.execution]

\* ------------------------------------------------------------- build_agents
\* workflow.py, tools.py

\* build_base_tools, tools.py:107-123: a hosted or function tool is built,
\* an agent_tool is deferred with its target key, and an agent_tool
\* without target or a tool of another kind raises ValueError.
BuildBaseTools(tool_spec) ==
    IF tool_spec.kind \in {"web_search", "python_repl"}
    THEN [raised |-> FALSE,
          tools |-> << [kind |-> tool_spec.kind, target |-> None] >>,
          deferred_agent_tools |-> << >>]
    ELSE IF tool_spec.kind = "agent_tool" /\ ~Falsy(tool_spec.target_agent)
    THEN [raised |-> FALSE, tools |-> << >>,
          deferred_agent_tools |-> << [spec |-> tool_spec,
                                       target_key |-> tool_spec.target_agent] >>]
    ELSE [raised |-> TRUE, tools |-> << >>, deferred_agent_tools |-> << >>]

\* workflow.py:40-45: the inner loop over one agent's tool specifications.
RECURSIVE AgentBaseTools(_)
AgentBaseTools(tool_specs) ==
    IF Len(tool_specs) = 0
    THEN [raised |-> FALSE, tools |-> << >>, deferred_agent_tools |-> << >>]
    ELSE LET r == BuildBaseTools(Head(tool_specs))
             rest == AgentBaseTools(Tail(tool_specs))
         IN  IF r.raised THEN r
             ELSE [raised |-> rest.raised,
                   tools |-> r.tools \o rest.tools,
                   deferred_agent_tools |-> r.deferred_agent_tools \o rest.deferred_agent_tools]

\* workflow.py:52: the agent's own model, else provider.model_id, which
\* ensure_provider_config reads from the environment when the workflow is
\* materialised (workflow.py:68, config.py:88-98).
EffectiveModel(agent_spec) ==
    IF Falsy(agent_spec.model) THEN DefaultModel ELSE agent_spec.model

\* workflow.py:39-54: the first pass builds every agent with its base
\* tools, keyed by agent key (a later agent with the same key replaces an
\* earlier one), and collects the deferred agent tools with their owner.
RECURSIVE FirstPass(_, _, _)
FirstPass(agent_specs, agents, deferred_tools) ==
    IF Len(agent_specs) = 0
    THEN [raised |-> FALSE, agents |-> agents, deferred_tools |-> deferred_tools]
    ELSE LET agent_spec == Head(agent_specs)
             r == AgentBaseTools(agent_spec.tools)
             agent == [name |-> agent_spec.key, model |-> EffectiveModel(agent_spec),
                       tools |-> r.tools]
             owned == [j \in DOMAIN r.deferred_agent_tools |->
                          [owner_key |-> agent_spec.key,
                           target_key |-> r.deferred_agent_tools[j].target_key]]
         IN  IF r.raised
             THEN [raised |-> TRUE, agents |-> agents, deferred_tools |-> deferred_tools]
             ELSE FirstPass(Tail(agent_specs), (agent_spec.key :> agent) @@ agents,
                            deferred_tools \o owned)

\* Mutant of AttachAgentTools: the wrapper is attached to the target and
\* delegates to the owner.
AttachToTarget(agents, owner_key, target_key) ==
    [agents EXCEPT ![target_key].tools =
        Append(@, [kind |-> "agent_tool", target |-> agents[owner_key].name])]

\* attach_agent_tools, tools.py:131-156: target.as_tool(...) is appended to
\* the owner's tools.
AttachAgentTools(agents, owner_key, target_key) ==
    [agents EXCEPT ![owner_key].tools =
        Append(@, [kind |-> "agent_tool", target |-> agents[target_key].name])]

\* workflow.py:56-62: the second pass binds the deferred agent tools in
\* order; a target key that no agent has raises KeyError.
RECURSIVE SecondPass(_, _)
SecondPass(agents, deferred_tools) ==
    IF Len(deferred_tools) = 0
    THEN [error |-> "none", agents |-> agents]
    ELSE LET d == Head(deferred_tools)
         IN  IF d.target_key \notin DOMAIN agents
             THEN [error |-> "KeyError", agents |-> << >>]
             ELSE SecondPass(AttachAgentTools(agents, d.owner_key, d.target_key),
                             Tail(deferred_tools))

\* build_agents, workflow.py:35-64.
BuildAgents(sp) ==
    LET first == FirstPass(sp.agents, << >>, << >>)
    IN  IF first.raised
        THEN [error |-> "ValueError", agents |-> << >>]
        ELSE SecondPass(first.agents, first.deferred_tools)

\* ------------------------------------------------------------- runtime.run_workflow
\* runtime.py

\* What a run of the Agents SDK Runner can end with: a final_output that
\* is a string (plain, whitespace only, empty) or a list (empty, or of one
\* blank string), ...
Outputs ==
    { [isstr |-> TRUE, value |-> <<"x">>],
      [isstr |-> TRUE, value |-> <<" ", NL>>],
      [isstr |-> TRUE, value |-> << >>],
      [isstr |-> FALSE, value |-> << >>],
      [isstr |-> FALSE, value |-> <<"'", " ", "'">>] }

\* ... or an exception; messages are sequences of words.
RunnerErrors ==
    { [type |-> "NotFoundError",
       message |-> <<"No", "endpoints", "found", "that", "support", "tool", "use">>],
      [type |-> "NotFoundError", message |-> <<"Tool", "use", "unavailable">>],
      [type |-> "NotFoundError", message |-> <<"model", "not", "found">>],
      [type |-> "APIError", message |-> <<"tool", "use", "failed">>] }

RunnerOutcomes ==
    { [raises |-> FALSE, output |-> o] : o \in Outputs }
    \cup { [raises |-> TRUE, error |-> e] : e \in RunnerErrors }

\* runtime.py:69-70, 111-112: a string is taken as it is, another object
\* through str(), which brackets the items of a list.
ToStr(output) ==
    IF output.isstr THEN output.value ELSE <<"[">> \o output.value \o <<"]">>

\* str.lower(), on the words of the model.
Lower(word) ==
    CASE word = "No" -> "no"
      [] word = "Tool" -> "tool"
      [] OTHER -> word

\* `pattern in message` on word sequences.
Contains(message, pattern) ==
    \E i \in 1..(Len(message) - Len(pattern) + 1) :
        SubSeq(message, i, i + Len(pattern) - 1) = pattern

\* Mutant of IsToolCapabilityError: the message is compared without
\* lower-casing it.
IsToolCapabilityErrorCaseSensitive(e) ==
    \/ Contains(e.message, <<"support", "tool", "use">>)
    \/ Contains(e.message, <<"tool", "use">>)

\* _is_tool_capability_error, runtime.py:78-80.
IsToolCapabilityError(e) ==
    LET message == [i \in DOMAIN e.message |-> Lower(e.message[i])]
    IN  \/ Contains(message, <<"support", "tool", "use">>)
        \/ Contains(message, <<"tool", "use">>)

\* str.strip(): leading and trailing whitespace is removed.
RECURSIVE StripLeft(_)
StripLeft(text) ==
    IF Len(text) > 0 /\ text[1] \in Whitespace THEN StripLeft(Tail(text)) ELSE text

RECURSIVE StripRight(_)
StripRight(text) ==
    IF Len(text) > 0 /\ text[Len(text)] \in Whitespace
    THEN StripRight(SubSeq(text, 1, Len(text) - 1))
    ELSE text

Strip(text) == StripRight(StripLeft(text))

\* sep.join(parts)
RECURSIVE Join(_, _)
Join(parts, sep) ==
    IF Len(parts) = 0 THEN << >>
    ELSE IF Len(parts) = 1 THEN parts[1]
    ELSE parts[1] \o sep \o Join(Tail(parts), sep)

\* The texts of runtime.py:43-44 and runtime.py:50, each as one word.
Directive == <<"<You cannot delegate...>">>
Incorporate == <<"<Incorporate the responsibilities...:>">>

\* runtime.py:28-32: the entry of one collaborator, "- name: summary" (the
\* instructions when the summary is empty), stripped, followed by a
\* guidance line when the instructions are not blank.
CollaboratorEntry(agent) ==
    LET head == Strip(<<"-", " ">> \o agent.name \o <<":", " ">>
                      \o (IF agent.summary # << >> THEN agent.summary
                                                   ELSE agent.instructions))
        extra == Strip(agent.instructions)
    IN  IF extra # << >>
        THEN Join(<<head, <<" ", " ", "Guidance:", " ">> \o extra>>, <<NL>>)
        ELSE head

\* Mutant of GatherCollaboratorInstructions: the entry agent is not
\* skipped.
RECURSIVE GatherEveryAgent(_, _)
GatherEveryAgent(agents, entry_key) ==
    IF agents = << >> THEN << >>
    ELSE <<CollaboratorEntry(Head(agents))>>
         \o GatherEveryAgent(Tail(agents), entry_key)

\* _gather_collaborator_instructions, runtime.py:22-32: one entry for each
\* agent whose key is not the entry key, in the order of the specification.
RECURSIVE GatherCollaboratorInstructions(_, _)
GatherCollaboratorInstructions(agents, entry_key) ==
    IF agents = << >> THEN << >>
    ELSE (IF Head(agents).key = entry_key THEN << >>
          ELSE <<CollaboratorEntry(Head(agents))>>)
         \o GatherCollaboratorInstructions(Tail(agents), entry_key)

\* Parts that are not the empty string, runtime.py:56.
RECURSIVE NonEmptyParts(_)
NonEmptyParts(parts) ==
    IF parts = << >> THEN << >>
    ELSE (IF Head(parts) = << >> THEN << >> ELSE <<Head(parts)>>)
         \o NonEmptyParts(Tail(parts))

\* The agent _run_single_agent_fallback builds, runtime.py:38-59.
FallbackAgent(sp) ==
    LET entry_key == sp.execution.entrypoint
        first == CHOOSE i \in DOMAIN sp.agents :
                    /\ sp.agents[i].key = entry_key
                    /\ \A j \in 1..(i - 1) : sp.agents[j].key # entry_key
        entry_spec == sp.agents[first]
        collaborator_snippets == GatherCollaboratorInstructions(sp.agents, entry_key)
        instructions_parts ==
            <<Strip(entry_spec.instructions), Directive>>
            \o (IF collaborator_snippets # << >>
                THEN <<Incorporate \o <<NL>> \o Join(collaborator_snippets, <<NL>>)>>
                ELSE << >>)
    IN  [name |-> entry_spec.name \o <<" ", "(standalone)">>,
         instructions |-> Join(NonEmptyParts(instructions_parts), <<NL, NL>>),
         tools |-> << >>,
         model |-> EffectiveModel(entry_spec)]

\* ------------------------------------------------------------- the lifecycle
\* main.py:15-21

\* The coordinator is not running.
CoordinatorIdle ==
    /\ workflow = << >> /\ api_key = "" /\ pc = "idle"
    /\ ordered_agents = << >> /\ task = << >> /\ idx = 0 /\ iteration = 0
    /\ current_input = << >> /\ shared_state = << >> /\ logs = << >>
    /\ gather_exc = NoError /\ error = NoError
    /\ result = NoResult /\ artifacts = NoArtifacts

\* A lifecycle starts from a prompt, with the payload the planning model
\* will return for it, or from the identifier of a stored document.
PipelineInit ==
    /\ CoordinatorIdle /\ BufferIdle /\ GeneratorIdle
    /\ \/ plan \in RawPlans /\ stored = NoDoc
       \/ plan = NoPlan /\ stored \in ExternalDocs \cup {NoDoc}
    /\ spec = NoSpec /\ runnable = NoRunnable
    /\ stage = "start" /\ run = NoRun /\ answer = NoAnswer /\ failure = NoFailure

\* transform_prompt_to_workflow, compiler.py:73-101: the payload is
\* validated as a WorkflowPlan (output_type, compiler.py:85) and compiled.
Compile ==
    /\ stage = "start"
    /\ plan # NoPlan
    /\ IF ValidPlan(plan)
       THEN /\ spec' = PlanToSpec(WorkflowPlanOf(plan))
            /\ stage' = "compiled"
            /\ failure' = failure
       ELSE /\ stage' = "failed"
            /\ failure' = [type |-> "ValidationError",
                           raised_by |-> "transform_prompt_to_workflow"]
            /\ spec' = spec
    /\ UNCHANGED <<plan, stored, runnable, run, answer>>
    /\ UNCHANGED <<coordinator_vars, buffer_vars, generator_vars>>

\* save_workflow, persistence.py:19-28.
SaveWorkflow ==
    /\ stage = "compiled"
    /\ stored' = Dump(spec)
    /\ stage' = "saved"
    /\ UNCHANGED <<plan, spec, runnable, run, answer, failure>>
    /\ UNCHANGED <<coordinator_vars, buffer_vars, generator_vars>>

\* load_workflow, persistence.py:31-41: the document is read, validated
\* as a WorkflowSpec and materialised (workflow.py:67-70).
LoadWorkflow ==
    /\ stage = "saved" \/ (stage = "start" /\ plan = NoPlan)
    /\ IF stored = NoDoc
       THEN /\ stage' = "failed"
            /\ failure' = [type |-> "FileNotFoundError", raised_by |-> "load_workflow"]
            /\ UNCHANGED <<spec, runnable>>
       ELSE IF ~ValidDoc(stored)
       THEN /\ stage' = "failed"
            /\ failure' = [type |-> "ValidationError", raised_by |-> "load_workflow"]
            /\ UNCHANGED <<spec, runnable>>
       ELSE LET sp == WorkflowSpecOf(stored)
                built == BuildAgents(sp)
            IN  IF built.error # "none"
                THEN /\ stage' = "failed"
                     /\ failure' = [type |-> built.error, raised_by |-> "build_agents"]
                     /\ UNCHANGED <<spec, runnable>>
                ELSE /\ spec' = sp
                     /\ runnable' = [agents |-> built.agents]
                     /\ stage' = "loaded"
                     /\ failure' = failure
    /\ UNCHANGED <<plan, stored, run, answer>>
    /\ UNCHANGED <<coordinator_vars, buffer_vars, generator_vars>>

\* runtime.py:86-101: the session is opened and the entrypoint agent is
\* looked up (workflow.py:26-28) for Runner.run_sync; a KeyError of the
\* lookup leaves through the finally clause.
RunStart ==
    /\ stage = "loaded"
    /\ IF spec.execution.entrypoint \in DOMAIN runnable.agents
       THEN /\ run' = [run EXCEPT !.session = "open", !.graph_runs = @ + 1]
            /\ stage' = "running"
            /\ failure' = failure
       ELSE /\ run' = [run EXCEPT !.session = "closed", !.closes = @ + 1]
            /\ stage' = "failed"
            /\ failure' = [type |-> "KeyError", raised_by |-> "run_workflow"]
    /\ UNCHANGED <<plan, stored, spec, runnable, answer>>
    /\ UNCHANGED <<coordinator_vars, buffer_vars, generator_vars>>

\* runtime.py:95-117: Runner.run_sync returns or raises.  A NotFoundError
\* that is a tool capability error starts the single-agent fallback from
\* inside the except clause, before the finally clause runs: the fallback
\* agent is built and run against the source prompt (runtime.py:38-66); any other
\* exception propagates; a final_output is converted to a string and
\* returned unless it is blank.
RunnerReturns(outcome) ==
    /\ stage = "running"
    /\ IF outcome.raises
       THEN IF outcome.error.type = "NotFoundError" /\ IsToolCapabilityError(outcome.error)
            THEN /\ run' = [run EXCEPT !.fallback_runs = @ + 1,
                                       !.graph_error = outcome.error,
                                       !.fallback_agent = FallbackAgent(spec),
                                       !.fallback_input = spec.metadata.source_prompt]
                 /\ stage' = "fallback"
                 /\ UNCHANGED <<answer, failure>>
            ELSE /\ run' = [run EXCEPT !.session = "closed", !.closes = @ + 1,
                                       !.graph_error = outcome.error]
                 /\ stage' = "failed"
                 /\ failure' = [type |-> outcome.error.type, raised_by |-> "Runner.run_sync"]
                 /\ answer' = answer
       ELSE /\ run' = [run EXCEPT !.session = "closed", !.closes = @ + 1,
                                  !.final_output = outcome.output]
            /\ IF IsBlank(ToStr(outcome.output))
               THEN /\ stage' = "failed"
                    /\ failure' = [type |-> "ValueError", raised_by |-> "run_workflow"]
                    /\ answer' = answer
               ELSE /\ stage' = "done"
                    /\ answer' = ToStr(outcome.output)
                    /\ failure' = failure
    /\ UNCHANGED <<plan, stored, spec, runnable>>
    /\ UNCHANGED <<coordinator_vars, buffer_vars, generator_vars>>

\* Mutant of FallbackReturns: the session is closed after the try
\* statement, not in a finally clause, so an exception of the fallback
\* leaves it open.
FallbackReturnsUnclosed(outcome) ==
    /\ stage = "fallback"
    /\ IF outcome.raises
       THEN /\ run' = run
            /\ stage' = "failed"
            /\ failure' = [type |-> outcome.error.type,
                           raised_by |-> "_run_single_agent_fallback"]
            /\ answer' = answer
       ELSE /\ run' = [run EXCEPT !.session = "closed", !.closes = @ + 1,
                                  !.final_output = outcome.output]
            /\ IF IsBlank(ToStr(outcome.output))
               THEN /\ stage' = "failed"
                    /\ failure' = [type |-> "ValueError",
                                   raised_by |-> "_run_single_agent_fallback"]
                    /\ answer' = answer
               ELSE /\ stage' = "done"
                    /\ answer' = ToStr(outcome.output)
                    /\ failure' = failure
    /\ UNCHANGED <<plan, stored, spec, runnable>>
    /\ UNCHANGED <<coordinator_vars, buffer_vars, generator_vars>>

\* _run_single_agent_fallback, runtime.py:62-75, and the finally clause of
\* run_workflow (runtime.py:107-108): the fallback's Runner.run_sync
\* returns or raises; nothing catches what it raises.
FallbackReturns(outcome) ==
    /\ stage = "fallback"
    /\ IF outcome.raises
       THEN /\ run' = [run EXCEPT !.session = "closed", !.closes = @ + 1]
            /\ stage' = "failed"
            /\ failure' = [type |-> outcome.error.type,
                           raised_by |-> "_run_single_agent_fallback"]
            /\ answer' = answer
       ELSE /\ run' = [run EXCEPT !.session = "closed", !.closes = @ + 1,
                                  !.final_output = outcome.output]
            /\ IF IsBlank(ToStr(outcome.output))
               THEN /\ stage' = "failed"
                    /\ failure' = [type |-> "ValueError",
                                   raised_by |-> "_run_single_agent_fallback"]
                    /\ answer' = answer
               ELSE /\ stage' = "done"
                    /\ answer' = ToStr(outcome.output)
                    /\ failure' = failure
    /\ UNCHANGED <<plan, stored, spec, runnable>>
    /\ UNCHANGED <<coordinator_vars, buffer_vars, generator_vars>>

PipelineNext ==
    \/ Compile
    \/ SaveWorkflow
    \/ LoadWorkflow
    \/ RunStart
    \/ \E outcome \in RunnerOutcomes : RunnerReturns(outcome)
    \/ \E outcome \in RunnerOutcomes : FallbackReturns(outcome)

PipelineSpec == PipelineInit /\ [][PipelineNext]_vars

\* ------------------------------------------------------------- the memory buffer
\* memory/short_term.py

\* The longest sequence of items handed to a buffer between two clears.
MaxAdded == 4

\* ShortTermMemoryBuffer.extend, short_term.py:23-25: add, item by item.
RECURSIVE BufferExtend(_, _)
BufferExtend(buf, items) ==
    IF items = << >> THEN buf
    ELSE BufferExtend(BufferAdd(buf, Head(items)), Tail(items))

\* ShortTermMemoryBuffer.dump, short_term.py:27-28.
BufferDump(buf) == buf.items

\* ShortTermMemoryBuffer.clear, short_term.py:30-32.
BufferClear(buf) == [buf EXCEPT !.items = << >>]

\* The lists extend is called with: up to two items.
ItemLists ==
    {<< >>} \cup { <<a>> : a \in Contents } \cup { <<a, b>> : a, b \in Contents }

\* ShortTermMemoryBuffer(max_items=...), short_term.py:15-17; deque accepts
\* any maxlen >= 0.
BufferInit ==
    /\ CoordinatorIdle /\ PipelineIdle /\ GeneratorIdle
    /\ ring \in { [max_items |-> m, items |-> << >>] : m \in 0..MaxAdded }
    /\ added = << >>

Add(item) ==
    /\ Len(added) < MaxAdded
    /\ ring' = BufferAdd(ring, item)
    /\ added' = Append(added, item)
    /\ UNCHANGED <<coordinator_vars, pipeline_vars, generator_vars>>

Extend(items) ==
    /\ Len(added) + Len(items) <= MaxAdded
    /\ ring' = BufferExtend(ring, items)
    /\ added' = added \o items
    /\ UNCHANGED <<coordinator_vars, pipeline_vars, generator_vars>>

Clear ==
    /\ ring' = BufferClear(ring)
    /\ added' = << >>
    /\ UNCHANGED <<coordinator_vars, pipeline_vars, generator_vars>>

BufferNext ==
    \/ \E item \in Contents : Add(item)
    \/ \E items \in ItemLists : Extend(items)
    \/ Clear

BufferSpec == BufferInit /\ [][BufferNext]_vars

\* ------------------------------------------------------------- workflow generation
\* meta/generator.py

\* The goals generate_workflow is called with: empty, blank, and text.
Prompts == { << >>, <<" ">>, <<"x">>, GoalText }

\* What json.loads makes of the model's reply: a dict, well typed (its
\* metadata and execution are dicts, its agents a list of dicts) or not,
\* a list, or null.  A reply cannot decode to a value json.dumps rejects.
JsonValues ==
    { [pytype |-> "dict", typed |-> TRUE, dict |-> w] :
        w \in { v \in Workflows : Serializable(v) } }
    \cup { [pytype |-> "dict", typed |-> FALSE, dict |-> << >>],
           [pytype |-> "list", typed |-> TRUE, dict |-> << >>],
           [pytype |-> "null", typed |-> TRUE, dict |-> << >>] }

NoValue == [pytype |-> "none", typed |-> TRUE, dict |-> << >>]

\* The replies of the meta agent: the JSON text of a value, or text that
\* is no JSON.
MetaContents ==
    { <<[kind |-> "json", value |-> v]>> : v \in JsonValues }
    \cup { <<[kind |-> "prose", value |-> NoValue]>> }

\* The responses of the backend to the meta agent's request.
MetaResponses ==
    { [status |-> 500, choices |-> << >>],
      [status |-> 200, choices |-> << >>],
      [status |-> 200, choices |-> << [content |-> << >>] >>] }
    \cup { [status |-> 200, choices |-> << [content |-> c] >>] : c \in MetaContents }

\* json.loads, generator.py:37-41: JSONDecodeError becomes ValueError.
JsonLoads(text) ==
    IF text[1].kind = "json"
    THEN [ok |-> TRUE, value |-> text[1].value]
    ELSE [ok |-> FALSE, error |-> "ValueError", value |-> NoValue]

\* validate_workflow applied to whatever json.loads returned
\* (generator.py:100): a value that is no dict, or a dict whose parts have
\* the wrong types, makes it raise (workflow.get, metadata.get, agent.get,
\* execution.get: schema.py:121-139) instead of returning errors.
ValidateCandidate(value) ==
    IF value.pytype = "null" THEN [raises |-> TRUE, error |-> "TypeError", valid |-> FALSE]
    ELSE IF value.pytype # "dict" \/ ~value.typed
    THEN [raises |-> TRUE, error |-> "AttributeError", valid |-> FALSE]
    ELSE [raises |-> FALSE, error |-> "none", valid |-> validate_workflow(value.dict).valid]

\* _fallback_workflow, generator.py:44-93.  The id is "fallback-" followed
\* by the slug of the prompt and created_at the time of the call: both are
\* non-empty strings whatever the prompt.
FallbackWorkflow(goal) ==
    [metadata    |-> [id |-> "fallback-<slug>", goal |-> goal,
                      description |-> "Fallback sequential workflow",
                      created_at |-> "<now>"],
     agents      |-> << [id |-> "planner", name |-> "Planner", model |-> None,
                         tools |-> << >>, memory |-> <<"planner_buffer">>],
                        [id |-> "executor", name |-> "Executor", model |-> None,
                         tools |-> <<"web_search">>, memory |-> <<"executor_buffer">>] >>,
     tools       |-> << [name |-> "web_search", type |-> "web_search"] >>,
     memory      |-> << [name |-> "planner_buffer", type |-> "short_term",
                         config |-> [max_items |-> 5]],
                        [name |-> "executor_buffer", type |-> "short_term",
                         config |-> [max_items |-> 10]] >>,
     connections |-> << [source |-> "planner", target |-> "executor"] >>,
     execution   |-> [mode |-> "sequential", max_iterations |-> 1, retry_limit |-> 1]]

NoWorkflow == [metadata |-> [id |-> "<none>"]]

\* The except branch of generate_workflow, generator.py:104-110, entered
\* with the exception `cause`.
Fallback(goal, cause, value) ==
    LET w == FallbackWorkflow(goal)
    IN  IF validate_workflow(w).valid
        THEN [stage |-> "returned", source |-> "fallback", cause |-> cause,
              candidate |-> value, workflow |-> w, error |-> "none"]
        ELSE [stage |-> "raised", source |-> "fallback", cause |-> cause,
              candidate |-> value, workflow |-> NoWorkflow, error |-> "RuntimeError"]

\* Mutant of Candidate: the candidate is returned as decoded, without
\* the validation step.
CandidateUnchecked(goal, value) ==
    [stage |-> "returned", source |-> "candidate", cause |-> "none",
     candidate |-> value, workflow |-> value.dict, error |-> "none"]

\* generate_workflow once _llm_generate returned `value`,
\* generator.py:100-103 and the except branch.
Candidate(goal, value) ==
    LET checked == ValidateCandidate(value)
    IN  IF checked.raises THEN Fallback(goal, checked.error, value)
        ELSE IF ~checked.valid THEN Fallback(goal, "ValueError", value)
        ELSE [stage |-> "returned", source |-> "candidate", cause |-> "none",
              candidate |-> value, workflow |-> value.dict, error |-> "none"]

GeneratorInit ==
    /\ CoordinatorIdle /\ PipelineIdle /\ BufferIdle
    /\ prompt \in Prompts
    /\ adapter \in { [api_key |-> k] : k \in {"", "sk"} }
    /\ generation = [stage |-> "start", source |-> "none", cause |-> "none",
                     candidate |-> NoValue, workflow |-> NoWorkflow, error |-> "none"]

\* generate_workflow up to the request, generator.py:96-99, 22-35: chat
\* raises at once without a key, and the except branch takes over.
GenerateStart ==
    /\ generation.stage = "start"
    /\ generation' = IF ChatRaisesUnsent(adapter.api_key)
                     THEN Fallback(prompt, "RuntimeError", NoValue)
                     ELSE [generation EXCEPT !.stage = "awaiting"]
    /\ UNCHANGED <<prompt, adapter>>
    /\ UNCHANGED <<coordinator_vars, pipeline_vars, buffer_vars>>

\* The response arrives, generator.py:35-41, 100-110.
LlmReturns(response) ==
    /\ generation.stage = "awaiting"
    /\ LET r == ChatResult(response)
       IN  generation' =
             IF ~r.ok THEN Fallback(prompt, r.error, NoValue)
             ELSE LET data == JsonLoads(r.content)
                  IN  IF ~data.ok THEN Fallback(prompt, data.error, NoValue)
                      ELSE Candidate(prompt, data.value)
    /\ UNCHANGED <<prompt, adapter>>
    /\ UNCHANGED <<coordinator_vars, pipeline_vars, buffer_vars>>

GeneratorNext ==
    \/ GenerateStart
    \/ \E response \in MetaResponses : LlmReturns(response)

GeneratorSpec == GeneratorInit /\ [][GeneratorNext]_vars

\* ------------------------------------------------------------- properties

\* The run has entered _sequential_execution, resp. _peer_execution.
Sequential == Mode = "sequential" /\ idx >= 1
Peer == Mode = "peer" /\ iteration >= 1
Started(f) == f.status # "pending"
AgentId(i) == workflow.agents[i].id

\* C1: in sequential mode the agents are invoked in the order the workflow
\* lists them: an agent is invoked only when every agent listed before it
\* has returned, the first agent's input is the goal, and the input of
\* agent i+1 is the logged output of agent i.
C1_SequentialPipeline ==
    Sequential =>
        \A i \in DOMAIN task :
            Started(task[i]) =>
                /\ i <= idx
                /\ task[i].context = [mode |-> "sequential"]
                /\ \A j \in 1..(i - 1) : task[j].status = "done"
                /\ i = 1 => task[i].input_text = workflow.metadata.goal
                /\ i > 1 => /\ Len(logs) >= i - 1
                            /\ logs[i - 1].agent_id = AgentId(i - 1)
                            /\ task[i].input_text = logs[i - 1].output

\* C1 witness: the second agent's request is in flight with the first
\* agent's output as its input, after the first agent was retried.
C1_Witness ==
    /\ Sequential
    /\ task[1].status = "done" /\ task[1].failures = 1
    /\ task[2].status = "inflight"
    /\ task[2].input_text = <<"x">>
    /\ task[2].input_text # workflow.metadata.goal

\* C2: a successful sequential run returns the last agent's output and a
\* step log with exactly one entry per agent, in workflow order, each with
\* context.mode = "sequential", whatever attempts failed on the way.
C2_SequentialResult ==
    (Mode = "sequential" /\ pc = "completed") =>
        /\ Len(logs) = NumAgents
        /\ \A i \in 1..NumAgents :
              /\ logs[i].agent_id = AgentId(i)
              /\ logs[i].context = [mode |-> "sequential"]
              /\ logs[i].output \in Contents
              /\ logs[i] = task[i].entry
        /\ result = logs[NumAgents].output

\* C2 witness: a completed sequential run in which an attempt failed and
\* the agents answered differently.
C2_Witness ==
    /\ Mode = "sequential" /\ pc = "completed"
    /\ \E i \in DOMAIN task : task[i].failures > 0
    /\ logs[1].output # logs[Len(logs)].output
    /\ result = <<" ">>

\* The output agent number i logged in peer iteration k.
LoggedOutput(k, i) ==
    LET j == CHOOSE n \in 1..Len(logs) :
                 /\ logs[n].agent_id = AgentId(i)
                 /\ logs[n].context = [mode |-> "peer", iteration |-> k]
    IN  logs[j].output

\* The shared input of peer iteration k: the goal, then the outputs of
\* iteration k-1 in declaration order, separated by newlines.
ExpectedSharedInput(k) ==
    IF k = 1 THEN workflow.metadata.goal
    ELSE JoinLines([i \in 1..NumAgents |-> LoggedOutput(k - 1, i)])

\* C3: in peer mode every agent of an iteration gets the same shared
\* input: the goal in iteration 1, afterwards the newline-join of the
\* previous iteration's outputs in declaration order; the final result is
\* that join for the last of exactly max_iterations iterations.
C3_PeerSharedInput ==
    Peer =>
        /\ iteration \in 1..Iterations
        /\ shared_state = ExpectedSharedInput(IF pc = "completed" THEN iteration + 1
                                              ELSE iteration)
        /\ \A i \in DOMAIN task :
              Started(task[i]) =>
                  /\ task[i].input_text = ExpectedSharedInput(task[i].context.iteration)
                  /\ task[i].context.iteration = iteration
        /\ pc = "completed" =>
              /\ iteration = Iterations
              /\ result = ExpectedSharedInput(Iterations + 1)

\* C3 witness: a completed two-iteration peer run whose second iteration
\* ran on the join "x\n " and whose result is the join " \nx".
C3_Witness ==
    /\ Mode = "peer" /\ pc = "completed" /\ Iterations = 2 /\ NumAgents = 2
    /\ task[1].input_text = <<"x", NL, " ">>
    /\ task[2].input_text = <<"x", NL, " ">>
    /\ result = <<" ", NL, "x">>

\* C4: a successful peer run over n agents and m iterations returns n*m
\* log entries, the n entries of iteration k (one per agent) before those
\* of iteration k+1, each with context.mode = "peer" and
\* context.iteration = k, k = 1..m.
C4_PeerLog ==
    (Mode = "peer" /\ pc = "completed") =>
        /\ Len(logs) = NumAgents * Iterations
        /\ \A j \in 1..Len(logs) :
              /\ logs[j].context =
                     [mode |-> "peer", iteration |-> ((j - 1) \div NumAgents) + 1]
              /\ logs[j].agent_id = AgentId(((j - 1) % NumAgents) + 1)
              /\ logs[j].output \in Contents

\* C4 witness: a completed peer run of two iterations.
C4_Witness ==
    /\ Mode = "peer" /\ pc = "completed" /\ Iterations = 2
    /\ Len(logs) = 2 * NumAgents
    /\ logs[Len(logs)].context.iteration = 2

\* C5: peer iterations are separated by a barrier: the invocations that
\* are started all belong to the current iteration, and every agent has a
\* logged, successful entry for every earlier iteration.
C5_PeerBarrier ==
    Peer =>
        /\ \A i \in DOMAIN task :
              Started(task[i]) => task[i].context = [mode |-> "peer", iteration |-> iteration]
        /\ \A i, j \in DOMAIN task :
              (task[i].status = "inflight" /\ task[j].status = "inflight")
                  => task[i].context.iteration = task[j].context.iteration
        /\ \A k \in 1..(iteration - 1) : \A i \in 1..NumAgents :
              \E n \in 1..Len(logs) :
                  /\ logs[n].agent_id = AgentId(i)
                  /\ logs[n].context = [mode |-> "peer", iteration |-> k]
                  /\ logs[n].output \in Contents

\* C5 witness: the second iteration is in flight.
C5_Witness ==
    /\ Mode = "peer" /\ pc = "executing" /\ iteration = 2
    /\ \A i \in DOMAIN task : task[i].status = "inflight"

\* C6 (as claimed): a failed peer run is reported with join semantics: once
\* run_workflow has raised, no invocation of the run is still in flight.
C6_FailureReportedAfterJoin ==
    pc = "failed" => \A i \in DOMAIN task : task[i].status # "inflight"

\* C7: in peer mode an agent that exhausted its retries fails the run: from
\* then on no later iteration starts, no result is returned and no
\* artifact is written, whatever the other agents of the iteration did,
\* and the run does not stay in execution once every task has ended.
C7_PeerExhaustionIsFatal ==
    [][ (Peer /\ \E i \in DOMAIN task : task[i].status = "exhausted")
          => /\ iteration' = iteration
             /\ logs' = logs
             /\ pc' \in {"executing", "failed"}
             /\ result' = NoResult /\ result = NoResult
             /\ artifacts' = NoArtifacts /\ artifacts = NoArtifacts
             /\ \A i \in DOMAIN task : task[i].status = "exhausted" => task'[i] = task[i]
             /\ (\A i \in DOMAIN task : task[i].status \in {"done", "exhausted"})
                   => pc' = "failed" ]_vars

\* C7 witness: the run has failed in the second iteration while the other
\* agent of that iteration had succeeded.
C7_Witness ==
    /\ Mode = "peer" /\ pc = "failed" /\ iteration = 2
    /\ task[1].status = "done"
    /\ task[2].status = "exhausted"
    /\ error.agent = AgentId(2)
    /\ result = NoResult /\ artifacts = NoArtifacts

\* C8: an invocation is attempted at most retry_limit + 1 times: exactly
\* retry_limit + 1 times when every attempt fails, exactly j times when
\* the j-th attempt is the first to succeed, and never again after that.
C8_AttemptBudget ==
    /\ [](\A i \in DOMAIN task :
            LET f == task[i]
            IN  /\ f.attempt <= RetryLimit + 1
                /\ f.failures <= f.attempt
                /\ f.status = "exhausted"
                      => f.attempt = RetryLimit + 1 /\ f.failures = RetryLimit + 1
                /\ f.status \in {"done", "inflight"} => f.attempt = f.failures + 1)
    /\ [][ \A i \in DOMAIN task :
             (task[i].status \in {"done", "exhausted"} /\ i \in DOMAIN task'
                 /\ task'[i].context = task[i].context)
                => task'[i] = task[i] ]_vars

\* C8 witness: an agent succeeded at its second attempt with retry_limit 1.
C8_Witness ==
    /\ RetryLimit = 1
    /\ \E i \in DOMAIN task :
          task[i].status = "done" /\ task[i].attempt = 2 /\ task[i].failures = 1

\* C9: when an agent exhausts its attempts the run fails with an error
\* naming the agent and retry_limit + 1, which is the number of attempts
\* made; no result is returned, and in sequential mode the failure is
\* immediate and no later agent is invoked.
C9_ExhaustionFailsRun ==
    /\ (pc = "failed" /\ error.type = "RuntimeError") =>
          /\ \E i \in DOMAIN task :
                /\ AgentId(i) = error.agent
                /\ task[i].status = "exhausted"
                /\ task[i].attempt = error.attempts
                /\ Mode = "sequential" =>
                      \A j \in DOMAIN task : j > i => task[j].status = "pending"
          /\ error.attempts = RetryLimit + 1
          /\ result = NoResult
          /\ artifacts = NoArtifacts
    /\ (\E i \in DOMAIN task : task[i].status = "exhausted") =>
          /\ pc # "completed"
          /\ Mode = "sequential" => pc = "failed"

\* C9 witness: a sequential run failed at its second agent after two
\* attempts; the first agent's step is logged, nothing is returned.
C9_Witness ==
    /\ Mode = "sequential" /\ pc = "failed" /\ RetryLimit = 1
    /\ error = [type |-> "RuntimeError", agent |-> AgentId(2), attempts |-> 2,
                 errors |-> << >>]
    /\ task[2].status = "exhausted" /\ task[2].attempt = 2
    /\ Len(logs) = 1

\* C10 (as claimed): a call that fails because no credential is
\* configured is not retried: with no key no agent is attempted twice.
C10_ConfigErrorNotRetried ==
    ChatRaisesUnsent(api_key) => \A i \in DOMAIN task : task[i].attempt <= 1

\* C11 (as claimed): the coordinator's run_workflow never returns a result
\* that is empty or whitespace only; such a run is reported as failed.
C11_NoBlankResult ==
    pc = "completed" => ~IsBlank(result)

\* The rules of the workflow schema that w violates, each named by the
\* message validate_workflow has for it.
ViolatedRules(w) ==
    LET metadata  == Get(w, "metadata", << >>)
        agents    == Get(w, "agents", << >>)
        execution == Get(w, "execution", << >>)
        AgentIdOf(i) == Get(agents[i], "id", "")
    IN  (IF Serializable(w) THEN {} ELSE {"Workflow is not JSON serializable"})
        \cup (IF "metadata" \in DOMAIN w THEN {} ELSE {"Missing required field 'metadata'."})
        \cup (IF "agents" \in DOMAIN w THEN {} ELSE {"Missing required field 'agents'."})
        \cup (IF "execution" \in DOMAIN w THEN {} ELSE {"Missing required field 'execution'."})
        \cup (IF Get(metadata, "id", "") # "" THEN {} ELSE {"metadata.id is required"})
        \cup (IF Get(metadata, "goal", << >>) # << >> THEN {} ELSE {"metadata.goal is required"})
        \cup (IF Get(metadata, "created_at", "") # "" THEN {}
              ELSE {"metadata.created_at is required"})
        \cup (IF Len(agents) >= 2 THEN {}
              ELSE {"At least two agent definitions are required"})
        \cup (IF \A i \in DOMAIN agents : AgentIdOf(i) # "" THEN {}
              ELSE {"Agent is missing an 'id'."})
        \cup (IF \A i, j \in DOMAIN agents :
                     (i # j /\ AgentIdOf(i) # "") => AgentIdOf(i) # AgentIdOf(j)
              THEN {} ELSE {"Duplicate agent id"})
        \cup (IF Get(execution, "mode", "") \in {"sequential", "peer"} THEN {}
              ELSE {"execution.mode must be 'sequential' or 'peer'"})

Malformed(w) == ViolatedRules(w) # {}

\* C13: run_workflow validates before anything else: a malformed workflow
\* makes the run fail with a ValueError that carries a non-empty list of
\* violations, each one a rule the workflow does violate, and then no agent
\* is instantiated, no agent is invoked and no artifact is written; while
\* the validation has not run, nothing of that has happened either.
C13_ValidationFirst ==
    LET untouched ==
            /\ ordered_agents = << >> /\ task = << >>
            /\ idx = 0 /\ iteration = 0 /\ logs = << >>
            /\ result = NoResult /\ artifacts = NoArtifacts
    IN  /\ pc = "validating" => untouched
        /\ (pc # "validating" /\ Malformed(workflow)) =>
              /\ pc = "failed"
              /\ error.type = "ValueError"
              /\ Len(error.errors) > 0
              /\ \A i \in DOMAIN error.errors : error.errors[i] \in ViolatedRules(workflow)
              /\ untouched
        /\ (error.type = "ValueError" /\ error.errors # << >>) => Malformed(workflow)

\* C13 witness: a run failed in validation with two violations listed and
\* nothing else done.
C13_Witness ==
    /\ pc = "failed" /\ error.type = "ValueError"
    /\ Len(error.errors) >= 2
    /\ ordered_agents = << >> /\ task = << >> /\ artifacts = NoArtifacts

\* C14 (as claimed): validate is complete: a malformed workflow is rejected
\* and the error list has an entry for every rule the workflow violates.
C14_ValidateComplete ==
    (pc # "validating" /\ Malformed(workflow)) =>
        /\ error.type = "ValueError"
        /\ \A rule \in ViolatedRules(workflow) :
              \E i \in DOMAIN error.errors : error.errors[i] = rule

\* C20 (as claimed): when the agents are built no tool reference is
\* silently skipped: every tool an agent definition references is among
\* the tools of the agent built from it.
C20_NoToolSilentlySkipped ==
    \A i \in DOMAIN ordered_agents :
        LET refs == Get(workflow.agents[i], "tools", << >>)
        IN  \A j \in DOMAIN refs : refs[j] \in ordered_agents[i].tools

\* C12: runtime.run_workflow returns a string only if it is not blank: the
\* answer is the string form of the Runner's final output, on the normal
\* path and on the fallback path, and has a character that is not
\* whitespace; a final output whose string form is empty or whitespace
\* only makes the run fail with ValueError and nothing is returned.
C12_RuntimeAnswerNotBlank ==
    LET text == ToStr(run.final_output)
        blank == \A i \in DOMAIN text : text[i] \in Whitespace
    IN  /\ stage = "done" <=> answer # NoAnswer
        /\ stage = "done" =>
              /\ answer = text
              /\ \E i \in DOMAIN answer : answer[i] \notin Whitespace
        /\ (run.final_output # NoRun.final_output /\ blank) =>
              /\ stage = "failed"
              /\ failure.type = "ValueError"
              /\ answer = NoAnswer

\* C12 witness: the fallback agent's run ended with a whitespace-only
\* output and the run failed.
C12_Witness ==
    /\ stage = "failed" /\ run.fallback_runs = 1
    /\ run.final_output = [isstr |-> TRUE, value |-> <<" ", NL>>]
    /\ failure = [type |-> "ValueError", raised_by |-> "_run_single_agent_fallback"]
    /\ answer = NoAnswer

\* C21: the single-agent fallback is run exactly when the graph-based run
\* raised a NotFoundError whose lower-cased message contains "tool use",
\* and then the outcome of the run is the fallback's: its answer when it
\* yields one, its own failure otherwise.  Any other error of the
\* graph-based run fails the run with that error, no fallback is run and
\* nothing is returned.
C21_CapabilityFallback ==
    LET e == run.graph_error
        raised == e.type # "none"
        text == [i \in DOMAIN e.message |-> Lower(e.message[i])]
        capability ==
            /\ e.type = "NotFoundError"
            /\ \E i \in DOMAIN text :
                  i + 1 \in DOMAIN text /\ text[i] = "tool" /\ text[i + 1] = "use"
    IN  /\ run.fallback_runs = (IF raised /\ capability THEN 1 ELSE 0)
        /\ (raised /\ ~capability) =>
              /\ stage = "failed"
              /\ failure = [type |-> e.type, raised_by |-> "Runner.run_sync"]
              /\ answer = NoAnswer
        /\ (raised /\ capability) =>
              /\ stage \in {"fallback", "done", "failed"}
              /\ stage = "done" => answer = ToStr(run.final_output)
              /\ stage = "failed" => failure.raised_by = "_run_single_agent_fallback"

\* C21 witness: the graph-based run failed with "Tool use unavailable" and
\* the answer returned is the fallback agent's.
C21_Witness ==
    /\ stage = "done" /\ run.fallback_runs = 1 /\ run.graph_runs = 1
    /\ run.graph_error = [type |-> "NotFoundError",
                          message |-> <<"Tool", "use", "unavailable">>]
    /\ answer = <<"x">>

\* C22: whenever the fallback is run, the fallback agent has no tools, its
\* input is the specification's source prompt, and its instructions are
\* the entrypoint agent's own instructions (stripped; left out when
\* blank), then the cannot-delegate directive, then, when there are other
\* agents, the summary: its heading and one entry for each agent other
\* than the entrypoint, in the order of the specification.
C22_FallbackAgent ==
    run.fallback_runs > 0 =>
        LET entry == CHOOSE i \in DOMAIN spec.agents :
                        spec.agents[i].key = spec.execution.entrypoint
            own == Strip(spec.agents[entry].instructions)
            before == [i \in 1..(entry - 1) |-> CollaboratorEntry(spec.agents[i])]
            after == [i \in 1..(Len(spec.agents) - entry) |->
                         CollaboratorEntry(spec.agents[entry + i])]
            others == before \o after
            summary == IF others = << >> THEN << >>
                       ELSE <<NL, NL>> \o Incorporate \o <<NL>> \o Join(others, <<NL>>)
        IN  /\ run.fallback_agent.tools = << >>
            /\ run.fallback_input = spec.metadata.source_prompt
            /\ run.fallback_agent.instructions =
                  (IF own = << >> THEN << >> ELSE own \o <<NL, NL>>)
                  \o Directive \o summary

\* C22 witness: a two-agent specification whose entrypoint is the second
\* agent; the fallback agent's instructions name the first agent only.
C22_Witness ==
    /\ run.fallback_runs = 1
    /\ Len(spec.agents) = 2
    /\ spec.execution.entrypoint = spec.agents[2].key
    /\ run.fallback_agent.instructions =
          <<"b">> \o <<NL, NL>> \o Directive \o <<NL, NL>> \o Incorporate
          \o <<NL, "-", " ", "L", ":", " ", "s", NL, " ", " ", "Guidance:", " ", "a">>

\* C15 (as claimed): a specification whose entrypoint is not the key of a
\* declared agent is rejected by validation: no such specification is
\* loaded and materialised.
C15_EntrypointDeclared ==
    runnable # NoRunnable =>
        spec.execution.entrypoint \in Keys(spec.agents)

\* C16 (as claimed): every agent_tool of a specification that passed model
\* validation declares a non-empty target_agent.
C16_AgentToolDeclaresTarget ==
    spec # NoSpec =>
        \A i \in DOMAIN spec.agents : \A j \in DOMAIN spec.agents[i].tools :
            spec.agents[i].tools[j].kind = "agent_tool"
                => ~Falsy(spec.agents[i].tools[j].target_agent)

\* C17: when a valid plan marks no agent final, the compiled specification
\* lists the plan's agents in order and exactly one of them is final, the
\* one whose key is the plan's entrypoint.
C17_EntrypointPromotion ==
    (plan # NoPlan /\ spec # NoSpec
        /\ \A i \in DOMAIN plan.agents : ~plan.agents[i].final) =>
        /\ Len(spec.agents) = Len(plan.agents)
        /\ \A i \in DOMAIN spec.agents :
              /\ spec.agents[i].key = plan.agents[i].key
              /\ spec.agents[i].final <=> spec.agents[i].key = plan.entrypoint
        /\ Cardinality({i \in DOMAIN spec.agents : spec.agents[i].final}) = 1
        /\ spec.execution.entrypoint = plan.entrypoint

\* C17 witness: a two-agent plan without final agent whose entrypoint is
\* the second agent has been compiled.
C17_Witness ==
    /\ stage = "compiled"
    /\ Len(plan.agents) = 2
    /\ \A i \in DOMAIN plan.agents : ~plan.agents[i].final
    /\ plan.entrypoint = PlanKeys[2]
    /\ ~spec.agents[1].final /\ spec.agents[2].final

\* The document declares an agent_tool whose target_agent names a key that
\* no agent of the document has.
DanglingAgentTool(doc) ==
    \E i \in DOMAIN doc.agents : \E j \in DOMAIN doc.agents[i].tools :
        LET tool == doc.agents[i].tools[j]
        IN  /\ tool.kind = "agent_tool"
            /\ "target_agent" \in DOMAIN tool
            /\ ~Falsy(tool.target_agent)
            /\ tool.target_agent \notin Keys(doc.agents)

\* load_workflow has returned or raised.
Loaded == stage \in {"loaded", "running", "fallback", "done", "failed"} /\ stored # NoDoc

\* C18 (as claimed): when a validated specification declares an agent_tool
\* whose target is not the key of any agent, build_agents fails with
\* KeyError and no RunnableWorkflow is returned.
C18_DanglingAgentToolIsKeyError ==
    (Loaded /\ ValidDoc(stored) /\ DanglingAgentTool(stored)) =>
        /\ failure = [type |-> "KeyError", raised_by |-> "build_agents"]
        /\ runnable = NoRunnable

\* The number of positions of a sequence that satisfy a test.
Count(seq, Test(_)) == Cardinality({ j \in DOMAIN seq : Test(seq[j]) })

\* C19: once build_agents has succeeded there is one runtime agent per
\* declared agent, and each carries exactly its declared tools: as many
\* hosted or function tools of each kind as it declares and, for each key,
\* as many agent-as-tool wrappers delegating to that key as it declares
\* agent_tool entries with that target, the target being a built agent,
\* wherever the target is listed.
C19_ToolsBound ==
    runnable # NoRunnable =>
        /\ DOMAIN runnable.agents = Keys(spec.agents)
        /\ \A i \in DOMAIN spec.agents :
              LET declared == spec.agents[i].tools
                  bound == runnable.agents[spec.agents[i].key].tools
              IN  /\ Len(bound) = Len(declared)
                  /\ \A kind \in {"web_search", "python_repl"} :
                        Count(bound, LAMBDA t : t.kind = kind)
                            = Count(declared, LAMBDA t : t.kind = kind)
                  /\ \A k \in Keys(spec.agents) \cup {GhostKey, None, ""} :
                        Count(bound, LAMBDA t : t.kind = "agent_tool" /\ t.target = k)
                            = Count(declared,
                                    LAMBDA t : t.kind = "agent_tool" /\ t.target_agent = k)
                  /\ \A j \in DOMAIN bound :
                        bound[j].kind = "agent_tool"
                            => bound[j].target \in DOMAIN runnable.agents

\* C19 witness: the first agent listed declares the second as a tool (a
\* forward reference), the second declares the first, and both are bound.
C19_Witness ==
    /\ runnable # NoRunnable
    /\ Len(spec.agents) = 2
    /\ \E j \in DOMAIN spec.agents[1].tools :
          spec.agents[1].tools[j].target_agent = PlanKeys[2]
    /\ \E j \in DOMAIN runnable.agents[PlanKeys[1]].tools :
          runnable.agents[PlanKeys[1]].tools[j] = [kind |-> "agent_tool", target |-> PlanKeys[2]]
    /\ \E j \in DOMAIN runnable.agents[PlanKeys[2]].tools :
          runnable.agents[PlanKeys[2]].tools[j] = [kind |-> "agent_tool", target |-> PlanKeys[1]]

\* C23: a run that has not completed has written no artifact, whatever it
\* failed with (validation, construction of the agents, an agent out of
\* attempts in either mode); once artifacts are written, the run has
\* completed without error and every agent invocation of the run has
\* returned its entry: one per agent in sequential mode, one per agent and
\* iteration in peer mode (none when the policy asks for no iteration).
C23_NoPartialArtifacts ==
    /\ pc # "completed" => artifacts = NoArtifacts
    /\ artifacts # NoArtifacts =>
          /\ pc = "completed" /\ error = NoError
          /\ \A i \in DOMAIN task :
                \/ task[i].status = "done"
                \/ Mode = "peer" /\ Iterations < 1 /\ task[i] = Pending
          /\ Len(logs) = (IF Mode = "peer" THEN NumAgents * Iterations ELSE NumAgents)

\* C23 witness: a peer run failed in its second iteration, after the
\* first iteration's entries were logged, and wrote nothing.
C23_Witness ==
    /\ Peer /\ pc = "failed" /\ iteration = 2
    /\ error.type = "RuntimeError"
    /\ Len(logs) = NumAgents
    /\ artifacts = NoArtifacts

\* C24: a completed run has written exactly two files, the step log as
\* returned and {"result": result}, the log first, at two different paths
\* that share the base name run_<goal slug>_<workflow id>_<run id>_<timestamp>,
\* and the RunArtifacts returned names these two paths; what is written is
\* never written again.
C24_TwoArtifacts ==
    /\ [](pc = "completed" =>
            LET written == artifacts.written
                base_name == <<"run_">> \o SlugGoal(workflow.metadata.goal)
                             \o <<"_", workflow.metadata.id, "_", RunId, "_", Timestamp>>
            IN  /\ Len(written) = 2
                /\ written[1] = [path |-> base_name \o <<"_log.json">>,
                                 content |-> [json |-> logs]]
                /\ written[2] = [path |-> base_name \o <<"_result.json">>,
                                 content |-> [json |-> [result |-> result]]]
                /\ written[1].path # written[2].path
                /\ artifacts.returned = [log_file |-> written[1].path,
                                         result_file |-> written[2].path])
    /\ [][artifacts # NoArtifacts => artifacts' = artifacts]_vars

\* C24 witness: a completed sequential run of two agents and its two files.
C24_Witness ==
    /\ Sequential /\ pc = "completed" /\ Len(logs) = 2
    /\ artifacts.returned =
          [log_file |-> <<"run_", "g", "-", "o", "_", "wf", "_", RunId, "_", Timestamp,
                          "_log.json">>,
           result_file |-> <<"run_", "g", "-", "o", "_", "wf", "_", RunId, "_", Timestamp,
                             "_result.json">>]
    /\ artifacts.written[2].content = [json |-> [result |-> <<"x">>]]

\* The place in the step log of the entry task i returned, among the
\* entries the last round of calls appended.
LogPlace(i) ==
    CHOOSE k \in (Len(logs) - NumAgents + 1)..Len(logs) :
        logs[k].agent_id = ordered_agents[i].id

\* C25 (as claimed): in the step log a completed run returns, the entries
\* of the last round of calls are in the order in which the calls
\* returned, also for two agents of one peer iteration.
C25_LogsInCompletionOrder ==
    (/\ pc = "completed"
     /\ Cardinality({ ordered_agents[i].id : i \in DOMAIN ordered_agents }) = NumAgents) =>
        \A i, j \in DOMAIN task :
            task[i].finished < task[j].finished => LogPlace(i) < LogPlace(j)

\* C26 (as claimed): when a run has failed after some invocations
\* succeeded, the entries logged for them are in what the caller of
\* run_workflow gets: the exception raised, or a step-log file.
C26_LogsSurviveFailure ==
    (pc = "failed" /\ logs # << >>) =>
        \/ \E k \in DOMAIN artifacts.written :
              artifacts.written[k].content = [json |-> logs]
        \/ error.errors = logs

\* The outputs of the calls of agent i that returned, oldest first: those
\* in the step log, and the one of the current peer round that gather has
\* not handed over yet.
RECURSIVE OutputsOf(_, _)
OutputsOf(entries, agent_id) ==
    IF entries = << >> THEN << >>
    ELSE (IF Head(entries).agent_id = agent_id THEN <<Head(entries).output>> ELSE << >>)
         \o OutputsOf(Tail(entries), agent_id)

OwnResponses(i) ==
    OutputsOf(logs, ordered_agents[i].id)
    \o (IF Peer /\ pc # "completed" /\ task[i].status = "done"
        THEN <<task[i].entry.output>> ELSE << >>)

\* The last n items of a sequence.
LastItems(seq, n) ==
    IF Len(seq) <= n THEN seq ELSE SubSeq(seq, Len(seq) - n + 1, Len(seq))

\* C27: every buffer of an agent holds responses of that agent only, its
\* most recent max_items ones, oldest first, also when another agent
\* references the same memory name; and a step changes the buffers of an
\* agent only if it is the return of a call of that agent.
C27_MemoryPrivate ==
    /\ [](\A i \in DOMAIN ordered_agents :
            \A name \in DOMAIN ordered_agents[i].memory :
                LET buffer == ordered_agents[i].memory[name]
                IN  buffer.items = LastItems(OwnResponses(i), buffer.max_items))
    /\ [][\A i \in DOMAIN ordered_agents :
            (/\ i \in DOMAIN ordered_agents'
             /\ ordered_agents'[i].memory # ordered_agents[i].memory) =>
                /\ task[i].status = "inflight"
                /\ task'[i].status = "done"]_vars

\* C27 witness: both agents reference the memory "shared", each has made
\* two calls, and each agent's buffer of that name holds its own last
\* response, the two being different.
C27_Witness ==
    /\ Peer /\ iteration = 2 /\ Len(ordered_agents) = 2
    /\ \A i \in 1..2 : "shared" \in DOMAIN ordered_agents[i].memory
    /\ \A i \in 1..2 : task[i].status = "done"
    /\ ordered_agents[1].memory["shared"].items = << <<"x">> >>
    /\ ordered_agents[2].memory["shared"].items = << <<" ">> >>
    /\ ordered_agents[2].memory["notes"].items = << <<"x">>, <<" ">> >>

\* C29: no step of a run changes the workflow it was given (agents, tools,
\* memory catalog, execution policy, metadata), whatever the mode, the
\* retries and the outcome; and the only files a run writes are its own
\* run files, never the stored workflow.
C29_WorkflowNotMutated ==
    /\ [][workflow' = workflow]_vars
    /\ [](\A k \in DOMAIN artifacts.written : artifacts.written[k].path[1] = "run_")

\* C29 witness: a peer run over a workflow with a memory catalog failed
\* after a retry, its agents having filled their buffers.
C29_Witness ==
    /\ workflow = MemoryWorkflow("peer", 1, "short_term")
    /\ pc = "failed" /\ error.type = "RuntimeError" /\ error.attempts = 2
    /\ ordered_agents[2].memory["notes"].items # << >>

\* C30: in sequential mode at most one call is in flight; the calls are
\* made one after the other: a call that has started is the current one,
\* every agent before it has returned its entry and no agent after it has
\* been called; an attempt in flight is the only attempt of its call that
\* has not failed.  A step starts an attempt of an agent only when the
\* previous attempt of that agent has failed in this step or, for its
\* first attempt, when the agent before it has returned.
C30_SequentialOneAtATime ==
    /\ [](Sequential =>
            /\ Cardinality({ i \in DOMAIN task : task[i].status = "inflight" }) <= 1
            /\ \A i \in DOMAIN task :
                  /\ task[i].status # "pending" =>
                        /\ i <= idx
                        /\ \A j \in 1..(i - 1) : task[j].status = "done"
                  /\ task[i].status \notin {"pending", "done"} =>
                        /\ i = idx
                        /\ \A j \in (i + 1)..Len(task) : task[j].status = "pending"
                  /\ task[i].status = "inflight" => task[i].failures = task[i].attempt - 1
                  /\ task[i].status = "done" => task[i].failures = task[i].attempt - 1)
    /\ [][Sequential =>
            \A i \in DOMAIN task :
                (i \in DOMAIN task' /\ task'[i].attempt > task[i].attempt) =>
                    /\ task'[i].failures >= task[i].attempt
                    /\ task[i].status # "inflight" =>
                          /\ task[i].status = "pending"
                          /\ \A j \in 1..(i - 1) : task'[j].status = "done"]_vars

\* C30 witness: the second agent's second attempt is in flight, after the
\* first agent returned from its own second attempt.
C30_Witness ==
    /\ Sequential /\ idx = 2
    /\ task[1].status = "done" /\ task[1].attempt = 2 /\ task[1].failures = 1
    /\ task[2].status = "inflight" /\ task[2].attempt = 2 /\ task[2].failures = 1

\* C28 (as claimed): a specification the compilation step produced and
\* save_workflow stored is read back by load_workflow: the load does not
\* fail, and the specification it yields equals the one that was saved.
C28_RoundTrip ==
    plan # NoPlan =>
        /\ failure.raised_by \notin {"load_workflow", "build_agents"}
        /\ runnable # NoRunnable => spec = PlanToSpec(WorkflowPlanOf(plan))

\* C31 (as claimed): the model of every agent build_agents built is the
\* override of its definition when one is set, and otherwise the default
\* model the specification records in its metadata.
C31_EffectiveModel ==
    runnable # NoRunnable =>
        \A i \in DOMAIN spec.agents :
            runnable.agents[spec.agents[i].key].model =
                (IF spec.agents[i].model \notin {None, ""}
                 THEN spec.agents[i].model
                 ELSE spec.metadata.default_model)

\* C32 (as claimed): a workflow that passed the validation gate has
\* max_iterations >= 1 and retry_limit >= 0, so every call of an agent
\* that has ended made at least one attempt, and a peer run that completed
\* logged every agent at least once.
C32_PolicyBoundsEnforced ==
    pc \notin {"validating", "failed"} \/ error.type = "RuntimeError" =>
        /\ Iterations >= 1 /\ RetryLimit >= 0
        /\ \A i \in DOMAIN task :
              task[i].status \in {"done", "exhausted"} => task[i].attempt >= 1
        /\ (pc = "completed" /\ Mode = "peer") =>
              \A i \in DOMAIN ordered_agents :
                  \E k \in DOMAIN logs : logs[k].agent_id = ordered_agents[i].id

\* C33: a call whose attempt is in flight or whose attempts have all
\* failed carries the input and the context it was made with, the
\* pipeline's current input in sequential mode and the shared state of
\* the iteration in peer mode, however many attempts failed; and a step
\* in which an attempt in flight fails leaves the input and context of
\* the call, the current input, the shared state and the step log as they
\* were.
C33_RetryInPlace ==
    /\ [](\A i \in DOMAIN task :
            task[i].status \in {"inflight", "exhausted"} =>
                /\ Sequential =>
                      /\ task[i].input_text = current_input
                      /\ task[i].context = [mode |-> "sequential"]
                /\ Peer =>
                      /\ task[i].input_text = shared_state
                      /\ task[i].context = [mode |-> "peer", iteration |-> iteration])
    /\ [][\A i \in DOMAIN task :
            (/\ i \in DOMAIN task'
             /\ task[i].status = "inflight"
             /\ task'[i].failures > task[i].failures) =>
                /\ task'[i].input_text = task[i].input_text
                /\ task'[i].context = task[i].context
                /\ current_input' = current_input
                /\ shared_state' = shared_state
                /\ logs' = logs]_vars

\* C33 witness: in the second peer iteration an agent's second attempt is
\* in flight with the shared state of the first iteration as its input.
C33_Witness ==
    /\ Peer /\ iteration = 2 /\ Len(logs) = NumAgents
    /\ task[1].status = "inflight" /\ task[1].attempt = 2 /\ task[1].failures = 1
    /\ task[1].input_text = shared_state
    /\ shared_state # workflow.metadata.goal

\* C34 as stated: after any number of calls every buffer of an agent holds
\* one item for each call of that agent that returned.
C34_OneItemPerSuccess ==
    \A i \in DOMAIN ordered_agents :
        \A name \in DOMAIN ordered_agents[i].memory :
            Len(ordered_agents[i].memory[name].items) = Len(OwnResponses(i))

\* The smaller of two numbers.
Min(a, b) == IF a <= b THEN a ELSE b

\* C34, amended: a step in which an attempt of an agent fails leaves the
\* buffers of that agent as they were; the step in which a call of the
\* agent returns appends exactly its response to every buffer of the
\* agent, a full buffer dropping its oldest item; and every buffer holds
\* one item for each call of the agent that returned, up to its max_items.
C34_MemoryOnSuccessOnly ==
    /\ [](\A i \in DOMAIN ordered_agents :
            \A name \in DOMAIN ordered_agents[i].memory :
                LET buffer == ordered_agents[i].memory[name]
                IN  Len(buffer.items) = Min(buffer.max_items, Len(OwnResponses(i))))
    /\ [][\A i \in DOMAIN ordered_agents :
            (i \in DOMAIN ordered_agents' /\ i \in DOMAIN task /\ i \in DOMAIN task') =>
                /\ task'[i].failures > task[i].failures =>
                      ordered_agents'[i].memory = ordered_agents[i].memory
                /\ (task[i].status = "inflight" /\ task'[i].status = "done") =>
                      \A name \in DOMAIN ordered_agents[i].memory :
                          LET before == ordered_agents[i].memory[name]
                              after == ordered_agents'[i].memory[name]
                          IN  /\ after.max_items = before.max_items
                              /\ after.items =
                                    LastItems(Append(before.items, task'[i].entry.output),
                                              before.max_items)]_vars

\* C34 witness: in the second peer iteration the second agent's call has
\* returned at its second attempt, the first having failed, and its buffer
\* "notes" holds its two responses and nothing of the failed attempt.
C34_Witness ==
    /\ Peer /\ iteration = 2 /\ Len(ordered_agents) = 2
    /\ "notes" \in DOMAIN ordered_agents[2].memory
    /\ task[2].status = "done" /\ task[2].failures = 1
    /\ Len(ordered_agents[2].memory["notes"].items) = 2
    /\ ordered_agents[2].memory["notes"].items[2] = task[2].entry.output

\* C35: after any sequence of add, extend and clear the buffer holds at
\* most max_items items, and its dump is the last min(max_items, number of
\* items added since the last clear) items added, oldest first.
C35_RingBuffer ==
    LET n == Min(ring.max_items, Len(added))
    IN  /\ Len(BufferDump(ring)) <= ring.max_items
        /\ Len(BufferDump(ring)) = n
        /\ \A k \in 1..n : BufferDump(ring)[k] = added[Len(added) - n + k]

\* C35 witness: a buffer of two items was handed three since its last
\* clear, and holds the second and the third; the first was evicted.
C35_Witness ==
    /\ ring.max_items = 2
    /\ Len(added) = 3
    /\ added[1] # added[2] /\ added[2] # added[3]
    /\ BufferDump(ring) = <<added[2], added[3]>>

\* C36: a compiled specification has at least one final agent; every agent
\* the plan marks final is final in the specification; when the plan marks
\* one or more, the flags are the plan's, agent by agent; and an agent
\* that is final without the plan marking it is the entrypoint of a plan
\* that marks none.
C36_FinalFlags ==
    (plan # NoPlan /\ spec # NoSpec) =>
        LET marked == { i \in DOMAIN plan.agents : plan.agents[i].final }
            final == { i \in DOMAIN spec.agents : spec.agents[i].final }
        IN  /\ DOMAIN spec.agents = DOMAIN plan.agents
            /\ final # {}
            /\ marked \subseteq final
            /\ marked # {} => final = marked
            /\ \A i \in final \ marked :
                  marked = {} /\ spec.agents[i].key = plan.entrypoint

\* C36 witness: a plan that marks both its agents final and names the
\* second as entrypoint has been compiled, and both are final.
C36_Witness ==
    /\ plan # NoPlan /\ spec # NoSpec /\ stage = "compiled"
    /\ Len(plan.agents) = 2
    /\ plan.entrypoint = plan.agents[2].key
    /\ \A i \in 1..2 : plan.agents[i].final /\ spec.agents[i].final

\* C37: run_workflow closes its session exactly once on every way out:
\* while the graph or the fallback runs the session is open and has not
\* been closed, and once run_workflow has returned or raised it is closed
\* and was closed once.  The fallback runs at most once, only after the
\* graph ran, and what it raises reaches the caller: the step that ends
\* the fallback ends the lifecycle and runs nothing again, and nothing
\* runs after the lifecycle has ended.
C37_SessionClosedOnce ==
    /\ [](/\ run.closes <= 1 /\ run.graph_runs <= 1 /\ run.fallback_runs <= 1
          /\ run.fallback_runs <= run.graph_runs
          /\ stage \in {"running", "fallback"} =>
                run.session = "open" /\ run.closes = 0
          /\ stage = "fallback" => run.fallback_runs = 1
          /\ (stage \in {"done", "failed"} /\ run.session # "none") =>
                run.session = "closed" /\ run.closes = 1
          /\ failure.raised_by = "_run_single_agent_fallback" =>
                /\ stage = "failed"
                /\ run.fallback_runs = 1
                /\ \E outcome \in RunnerOutcomes :
                      \/ outcome.raises /\ failure.type = outcome.error.type
                      \/ failure.type = "ValueError")
    /\ [][/\ stage = "fallback" =>
                /\ stage' \in {"done", "failed"}
                /\ run'.fallback_runs = run.fallback_runs
                /\ run'.graph_runs = run.graph_runs
          /\ stage \in {"done", "failed"} => run' = run /\ stage' = stage]_vars

\* C37 witness: the graph raised a tool capability error, the fallback ran
\* once and raised, and the session was closed once.
C37_Witness ==
    /\ stage = "failed"
    /\ failure.raised_by = "_run_single_agent_fallback"
    /\ failure.type # "ValueError"
    /\ run.graph_runs = 1 /\ run.fallback_runs = 1
    /\ run.session = "closed" /\ run.closes = 1

\* The attempts the call of a frame may still make.
AttemptsLeft(frame) == RetryLimit + 1 - frame.attempt

\* The attempts left to the first n frames of tasks.
RECURSIVE SumLeft(_, _)
SumLeft(tasks, n) ==
    IF n = 0 THEN 0 ELSE AttemptsLeft(tasks[n]) + SumLeft(tasks, n - 1)

\* The bound of C38 on the attempts of a run.
AttemptBound ==
    LET n == Len(Get(workflow, "agents", << >>))
    IN  IF Mode = "peer" THEN n * Iterations * (RetryLimit + 1)
        ELSE n * (RetryLimit + 1)

\* The attempts the run may still make: those left to the calls of the
\* current pipeline or iteration, and a full share for every iteration
\* still to come; the whole bound before the first call.
Budget ==
    LET n == Len(Get(workflow, "agents", << >>))
    IN  IF Mode = "peer"
        THEN IF iteration = 0 THEN AttemptBound
             ELSE (Iterations - iteration) * n * (RetryLimit + 1)
                  + SumLeft(task, Len(task))
        ELSE IF task = << >> THEN AttemptBound
             ELSE SumLeft(task, Len(task))

\* The attempts made in a step from frames old to frames new: a frame
\* with the context of the old one continues its call, any other is a
\* new call.
RECURSIVE AttemptsMade(_, _, _)
AttemptsMade(old, new, i) ==
    IF i > Len(new) THEN 0
    ELSE (IF i \in DOMAIN old /\ old[i].context = new[i].context
          THEN new[i].attempt - old[i].attempt
          ELSE new[i].attempt)
         + AttemptsMade(old, new, i + 1)

\* The calls that have not ended: those of the current pipeline or
\* iteration, and every call of the iterations still to come.
Waiting ==
    LET n == Len(Get(workflow, "agents", << >>))
        open == Cardinality({ i \in DOMAIN task :
                                task[i].status \in {"pending", "running", "inflight"} })
    IN  IF Mode = "peer"
        THEN IF iteration = 0 THEN Iterations * n
             ELSE (Iterations - iteration) * n + open
        ELSE IF task = << >> THEN n ELSE open

\* A measure of the steps a run may still take: two for every attempt it
\* may still make, one for every call that has not ended, and the rank of
\* the engine's position.
Rank ==
    CASE pc = "validating" -> 4
      [] pc = "building" -> 3
      [] pc = "dispatching" -> 2
      [] pc = "executing" -> 1
      [] OTHER -> 0

Variant == Rank + 2 * Budget + Waiting

\* The steps the engine takes by itself, no response being awaited.
EngineStep ==
    \/ Validate \/ CreateAgents \/ SeqStart \/ PeerStart
    \/ PeerGatherReturns \/ PeerGatherRaises

\* C38: a run makes at most n * (retry_limit + 1) attempts in sequential
\* mode and n * max_iterations * (retry_limit + 1) in peer mode: the
\* attempts it may still make start at that bound, never fall below zero,
\* and every attempt made in a step is taken from them.  Every run ends:
\* each step lowers the measure Variant, whose terms are never negative,
\* so no run loops; a
\* run that has neither completed nor failed and has no call in flight
\* can take a step of its own, so it waits for nothing but a response.
C38_Termination ==
    /\ [](/\ Budget >= 0
          /\ Waiting >= 0
          /\ pc = "validating" => Budget = AttemptBound
          /\ (/\ pc \notin {"completed", "failed"}
              /\ \A i \in DOMAIN task : task[i].status # "inflight")
                => ENABLED EngineStep)
    /\ [][LET before == Budget
               after == Budget'
           IN  /\ AttemptsMade(task, task', 1) <= before - after
               /\ Rank' + 2 * after + Waiting' < Rank + 2 * before + Waiting]_vars

\* C38 witness: a peer run of two agents and two iterations with
\* retry_limit 1 has completed, both calls of its last iteration having
\* used both their attempts; no attempt is left.
C38_Witness ==
    /\ Peer /\ pc = "completed"
    /\ NumAgents = 2 /\ Iterations = 2 /\ iteration = 2 /\ RetryLimit = 1
    /\ \A i \in DOMAIN task : task[i].status = "done" /\ task[i].attempt = 2
    /\ Budget = 0

\* C39: what generate_workflow returns passes validate_workflow.  It is
\* the candidate the model produced only if that candidate passed; it is
\* the built-in fallback workflow for the prompt whenever the request, the
\* decoding or the validation of the candidate failed, and only then; and
\* when the fallback workflow does not pass, generate_workflow raises and
\* returns nothing.
C39_GeneratedWorkflowValid ==
    LET g == generation
        fallback == FallbackWorkflow(prompt)
    IN  /\ g.stage = "returned" =>
              /\ validate_workflow(g.workflow).valid
              /\ g.source = "candidate" =>
                    /\ g.cause = "none"
                    /\ g.candidate.pytype = "dict" /\ g.candidate.typed
                    /\ g.workflow = g.candidate.dict
              /\ g.source = "fallback" =>
                    /\ g.workflow = fallback
                    /\ g.cause # "none"
                    /\ ~(/\ g.candidate.pytype = "dict" /\ g.candidate.typed
                         /\ validate_workflow(g.candidate.dict).valid)
        /\ g.stage = "raised" =>
              /\ g.error = "RuntimeError"
              /\ g.workflow = NoWorkflow
              /\ g.source = "fallback"
              /\ ~validate_workflow(fallback).valid
        /\ (g.stage \in {"returned", "raised"} /\ g.cause = "none") =>
              g.source = "candidate"

\* C39 witness: the model produced a workflow that does not validate, and
\* the fallback workflow for the prompt was returned instead.
C39_Witness ==
    /\ generation.stage = "returned"
    /\ generation.source = "fallback"
    /\ generation.cause = "ValueError"
    /\ generation.candidate.pytype = "dict" /\ generation.candidate.typed
    /\ ~validate_workflow(generation.candidate.dict).valid
    /\ generation.workflow = FallbackWorkflow(prompt)
    /\ generation.workflow.metadata.goal = prompt

====
